---- MODULE Spec2Model ----
(***************************************************************************)
(* Model of rm-xochitl-kbdpatch (src/rm-xochitl-kbdpatch/src/main.rs).     *)
(*                                                                         *)
(* Bytes are integers 0..255, files and payloads are sequences of bytes.   *)
(* A glyph string is a sequence of Unicode code points.  JSON values are   *)
(* records:                                                                *)
(*   Elem  [str, s]            a JSON array element; s is its string       *)
(*   Field [kind, elems]       kind is "absent", "arr" or "other"          *)
(*   Key   [obj, special, extra, default, shifted]                         *)
(*   Row   [arr, keys]                                                     *)
(*   Doc   [rest, alpha, rows] alpha is "absent", "arr" or "other"         *)
(* Fallible functions return records with an ok field.                     *)
(***************************************************************************)
EXTENDS Integers, Sequences, FiniteSets, TLC

\* ------------------------------------------------------------------ bounds
MaxRuns == 2
MaxFaults == 2

\* --------------------------------------------------------------- constants
MAGIC_ZSTD == <<40, 181, 47, 253>>
STATE_SCHEMA == "kbdpatch-state-v2"
SKIP_MAGIC_LE == <<80, 42, 77, 24>>
LEVELS == <<3, 5, 8, 10, 12, 15, 18, 22>>

\* ----------------------------------------------------------------- helpers
RECURSIVE Concat(_)
Concat(ss) == IF ss = <<>> THEN <<>> ELSE Head(ss) \o Concat(Tail(ss))

RECURSIVE SumSeq(_)
SumSeq(ns) == IF ns = <<>> THEN 0 ELSE Head(ns) + SumSeq(Tail(ns))

Zeros(n) == [i \in 1..n |-> 0]

StartsWith(b, pre) == Len(b) >= Len(pre) /\ SubSeq(b, 1, Len(pre)) = pre

Err == [ok |-> FALSE]

\* ------------------------------------------------------ JSON value builders
Str(s) == [str |-> TRUE, s |-> s]
NonStr == [str |-> FALSE, s |-> <<>>]
Arr(es) == [kind |-> "arr", elems |-> es]
Absent == [kind |-> "absent", elems |-> <<>>]
NotArr == [kind |-> "other", elems |-> <<>>]
NKey(d, s) == [obj |-> TRUE, special |-> FALSE, extra |-> 0,
               default |-> Arr(<<Str(<<d>>)>>), shifted |-> Arr(<<Str(<<s>>)>>)]
SKey == [obj |-> TRUE, special |-> TRUE, extra |-> 1,
         default |-> Absent, shifted |-> Absent]
NonObjKey == [obj |-> FALSE, special |-> FALSE, extra |-> 0,
              default |-> Absent, shifted |-> Absent]
RowOf(ks) == [arr |-> TRUE, keys |-> ks]
NonArrRow == [arr |-> FALSE, keys |-> <<>>]
DocOf(rest, rs) == [rest |-> rest, alpha |-> "arr", rows |-> rs]

\* -------------------------------------------- serde_json::to_vec/from_slice
\* Code points below 0x800 only: one or two UTF-8 bytes.
Utf8(c) == IF c < 128 THEN <<c>> ELSE <<192 + (c \div 64), 128 + (c % 64)>>

SerStr(s) == Concat([i \in 1..Len(s) |-> Utf8(s[i])])

SerElem(e) == IF e.str THEN <<1, Len(SerStr(e.s))>> \o SerStr(e.s) ELSE <<0>>

SerField(f) ==
    CASE f.kind = "absent" -> <<0>>
      [] f.kind = "other" -> <<2>>
      [] OTHER -> <<1, Len(f.elems)>>
                    \o Concat([i \in 1..Len(f.elems) |-> SerElem(f.elems[i])])

SerKey(k) ==
    IF ~k.obj THEN <<0>>
    ELSE <<1, IF k.special THEN 1 ELSE 0, k.extra>>
           \o SerField(k.default) \o SerField(k.shifted)

SerRow(r) ==
    IF ~r.arr THEN <<0>>
    ELSE <<1, Len(r.keys)>> \o Concat([i \in 1..Len(r.keys) |-> SerKey(r.keys[i])])

to_vec(d) ==
    <<d.rest>> \o
    (CASE d.alpha = "absent" -> <<0>>
       [] d.alpha = "other" -> <<2>>
       [] OTHER -> <<1, Len(d.rows)>>
                     \o Concat([i \in 1..Len(d.rows) |-> SerRow(d.rows[i])]))

\* r, if it failed, or else what F makes of it.
OkThen(r, F(_)) == IF r.ok THEN F(r) ELSE Err

\* Parsers take the bytes and a 1-based position, and return the value and
\* the position after it.
RECURSIVE ParseStr(_, _, _, _)
ParseStr(b, p, end, acc) ==
    IF p = end THEN [ok |-> TRUE, v |-> acc]
    ELSE IF b[p] < 128 THEN ParseStr(b, p + 1, end, Append(acc, b[p]))
    ELSE IF b[p] >= 192 /\ b[p] < 224 /\ p + 1 < end /\ b[p + 1] >= 128 /\ b[p + 1] < 192
         THEN ParseStr(b, p + 2, end, Append(acc, (b[p] - 192) * 64 + (b[p + 1] - 128)))
    ELSE Err

ParseElem(b, p) ==
    IF p > Len(b) THEN Err
    ELSE IF b[p] = 0 THEN [ok |-> TRUE, v |-> NonStr, next |-> p + 1]
    ELSE IF b[p] = 1 /\ p + 1 <= Len(b) /\ p + 1 + b[p + 1] <= Len(b)
         THEN OkThen(ParseStr(b, p + 2, p + 2 + b[p + 1], <<>>),
                     LAMBDA s : [ok |-> TRUE, v |-> Str(s.v), next |-> p + 2 + b[p + 1]])
    ELSE Err

\* n values parsed by P, one after the other, from position p.
RECURSIVE ParseMany(_, _, _, _, _)
ParseMany(P(_, _), b, p, n, acc) ==
    IF n = 0 THEN [ok |-> TRUE, v |-> acc, next |-> p]
    ELSE OkThen(P(b, p), LAMBDA h : ParseMany(P, b, h.next, n - 1, Append(acc, h.v)))

ParseField(b, p) ==
    IF p > Len(b) THEN Err
    ELSE IF b[p] = 0 THEN [ok |-> TRUE, v |-> Absent, next |-> p + 1]
    ELSE IF b[p] = 2 THEN [ok |-> TRUE, v |-> NotArr, next |-> p + 1]
    ELSE IF b[p] = 1 /\ p + 1 <= Len(b)
         THEN OkThen(ParseMany(ParseElem, b, p + 2, b[p + 1], <<>>),
                     LAMBDA es : [ok |-> TRUE, v |-> Arr(es.v), next |-> es.next])
    ELSE Err

ParseKey(b, p) ==
    IF p > Len(b) THEN Err
    ELSE IF b[p] = 0 THEN [ok |-> TRUE, v |-> NonObjKey, next |-> p + 1]
    ELSE IF b[p] = 1 /\ p + 2 <= Len(b) /\ b[p + 1] \in {0, 1}
         THEN OkThen(ParseField(b, p + 3), LAMBDA d :
              OkThen(ParseField(b, d.next), LAMBDA s :
                [ok |-> TRUE, next |-> s.next,
                 v |-> [obj |-> TRUE, special |-> b[p + 1] = 1, extra |-> b[p + 2],
                        default |-> d.v, shifted |-> s.v]]))
    ELSE Err

ParseRow(b, p) ==
    IF p > Len(b) THEN Err
    ELSE IF b[p] = 0 THEN [ok |-> TRUE, v |-> NonArrRow, next |-> p + 1]
    ELSE IF b[p] = 1 /\ p + 1 <= Len(b)
         THEN OkThen(ParseMany(ParseKey, b, p + 2, b[p + 1], <<>>),
                     LAMBDA ks : [ok |-> TRUE, v |-> RowOf(ks.v), next |-> ks.next])
    ELSE Err

from_slice(b) ==
    IF Len(b) < 2 THEN Err
    ELSE IF b[2] = 0 /\ Len(b) = 2
         THEN [ok |-> TRUE, v |-> [rest |-> b[1], alpha |-> "absent", rows |-> <<>>]]
    ELSE IF b[2] = 2 /\ Len(b) = 2
         THEN [ok |-> TRUE, v |-> [rest |-> b[1], alpha |-> "other", rows |-> <<>>]]
    ELSE IF b[2] = 1 /\ Len(b) >= 3
         THEN OkThen(ParseMany(ParseRow, b, 4, b[3], <<>>),
                     LAMBDA rs : IF rs.next = Len(b) + 1
                                 THEN [ok |-> TRUE,
                                       v |-> [rest |-> b[1], alpha |-> "arr", rows |-> rs.v]]
                                 ELSE Err)
    ELSE Err

\* ------------------------------------------------------------ JSON accessors
\* map.get(field)?.as_array()?.get(0)?.as_str()
get0_str_val(k, f) ==
    IF f.kind = "arr" /\ Len(f.elems) >= 1 /\ f.elems[1].str
    THEN [ok |-> TRUE, v |-> f.elems[1].s]
    ELSE Err

\* .get(field).and_then(as_array).map(len).unwrap_or(0)
ArrLen(f) == IF f.kind = "arr" THEN Len(f.elems) ELSE 0

ensure_one_char(s) == Len(s) = 1

\* ----------------------------------------------------------- key positions
ROW0_LETTERS == <<113, 119, 101, 114, 116, 122, 117, 105, 111, 112>>
ROW1_LETTERS == <<97, 115, 100, 102, 103, 104, 106, 107, 108>>
ROW2_LETTERS == <<121, 120, 99, 118, 98, 110, 109>>
U_UML == <<252>>
O_UML == <<246>>
A_UML == <<228>>

\* The (letter, row, index) slots of the de_DE grid, rows and indexes 1-based:
\* row0[0..9] and row0[10], row1[0..8], row1[9], row1[10], row2[1..7].
Slot(ch, r, i) == [ch |-> ch, row |-> r, idx |-> i]
Row0Slots == [i \in 1..Len(ROW0_LETTERS) |-> Slot(ROW0_LETTERS[i], 1, i)]
Row1Slots == [i \in 1..Len(ROW1_LETTERS) |-> Slot(ROW1_LETTERS[i], 2, i)]
Row2Slots == [i \in 1..Len(ROW2_LETTERS) |-> Slot(ROW2_LETTERS[i], 3, i + 1)]

\* --------------------------------------------------------- mapping builder
key_pair_from_val(v) ==
    IF ~v.obj THEN Err
    ELSE IF v.special THEN Err
    ELSE LET def0 == get0_str_val(v, v.default)
             shf0 == get0_str_val(v, v.shifted)
         IN IF ~def0.ok THEN Err
            ELSE LET sh0 == IF shf0.ok THEN shf0.v ELSE def0.v
                 IN IF ensure_one_char(def0.v) /\ ensure_one_char(sh0)
                    THEN [ok |-> TRUE, d |-> def0.v, s |-> sh0]
                    ELSE Err

validate_override(over) == over.alpha = "arr" /\ Len(over.rows) = 3

build_letter_mapping_de_de(over) ==
    IF over.alpha # "arr" \/ Len(over.rows) # 3 THEN Err
    ELSE IF \E r \in 1..3 : ~over.rows[r].arr THEN Err
    ELSE IF Len(over.rows[1].keys) < 11 \/ Len(over.rows[2].keys) < 11
            \/ Len(over.rows[3].keys) < 8 THEN Err
    ELSE LET slots == Row0Slots \o <<Slot(U_UML[1], 1, 11)>> \o Row1Slots
                        \o <<Slot(O_UML[1], 2, 10), Slot(A_UML[1], 2, 11)>> \o Row2Slots
             pair(j) == key_pair_from_val(over.rows[slots[j].row].keys[slots[j].idx])
             at(ch) == CHOOSE j \in 1..Len(slots) : slots[j].ch = ch
         IN IF \E j \in 1..Len(slots) : ~pair(j).ok THEN Err
            ELSE [ok |-> TRUE,
                  m |-> [ch \in {slots[j].ch : j \in 1..Len(slots)} |->
                           <<pair(at(ch)).d, pair(at(ch)).s>>]]

build_letter_mapping(locale, over) ==
    IF locale = "de_DE" THEN build_letter_mapping_de_de(over) ELSE Err

\* -------------------------------------------------------- mapping, applied
\* A comparison that always asks for the replacement.
NeedsSetAlways(k, nd, ns) == TRUE

\* The comparison both policies make before they replace the two arrays.
NeedsSet(k, nd, ns) ==
    LET d0 == get0_str_val(k, k.default)
        s0 == get0_str_val(k, k.shifted)
        cur_def0 == IF d0.ok THEN d0.v ELSE <<>>
        cur_sh0 == IF s0.ok THEN s0.v ELSE cur_def0
    IN ArrLen(k.default) # 1 \/ ArrLen(k.shifted) # 1 \/ cur_def0 # nd \/ cur_sh0 # ns

WithPair(k, nd, ns) ==
    [k EXCEPT !.default = Arr(<<Str(nd)>>), !.shifted = Arr(<<Str(ns)>>)]

\* One key under the by-base-letter policy: the key after, touched, changed.
BaseLetterKey(k, m) ==
    LET same == [key |-> k, touched |-> 0, changed |-> 0]
        d0 == get0_str_val(k, k.default)
    IN IF ~k.obj \/ k.special \/ ~d0.ok THEN same
       ELSE IF Len(d0.v) # 1 THEN same
       ELSE LET c == d0.v[1]
                is_ascii_alphabetic == (c >= 65 /\ c <= 90) \/ (c >= 97 /\ c <= 122)
                key == IF is_ascii_alphabetic /\ c <= 90 THEN c + 32 ELSE c
            IN IF key \notin DOMAIN m THEN same
               ELSE IF NeedsSet(k, m[key][1], m[key][2])
                    THEN [key |-> WithPair(k, m[key][1], m[key][2]),
                          touched |-> 1, changed |-> 1]
                    ELSE [key |-> k, touched |-> 1, changed |-> 0]

apply_mapping_by_base_letter(base, m) ==
    IF base.alpha # "arr" THEN Err
    ELSE IF Len(base.rows) < 3 THEN Err
    ELSE LET res(r, i) == BaseLetterKey(base.rows[r].keys[i], m)
             hit(r) == r <= 3 /\ base.rows[r].arr
             newrow(r) == IF hit(r)
                          THEN [base.rows[r] EXCEPT
                                  !.keys = [i \in 1..Len(base.rows[r].keys) |-> res(r, i).key]]
                          ELSE base.rows[r]
             count(r, f) == IF hit(r)
                            THEN SumSeq([i \in 1..Len(base.rows[r].keys) |-> res(r, i)[f]])
                            ELSE 0
         IN [ok |-> TRUE,
             doc |-> [base EXCEPT !.rows = [r \in 1..Len(base.rows) |-> newrow(r)]],
             touched |-> SumSeq([r \in 1..3 |-> count(r, "touched")]),
             changed |-> SumSeq([r \in 1..3 |-> count(r, "changed")])]

set_key_pair(k, nd, ns) ==
    IF ~k.obj THEN Err
    ELSE IF k.special THEN Err
    ELSE IF NeedsSet(k, nd, ns) THEN [ok |-> TRUE, key |-> WithPair(k, nd, ns), did |-> 1]
    ELSE [ok |-> TRUE, key |-> k, did |-> 0]

apply_mapping_by_position_de_de(base, m) ==
    IF base.alpha # "arr" THEN Err
    ELSE IF Len(base.rows) < 3 THEN Err
    ELSE IF \E r \in 1..3 : ~base.rows[r].arr THEN Err
    ELSE IF Len(base.rows[1].keys) < 10 \/ Len(base.rows[2].keys) < 9
            \/ Len(base.rows[3].keys) < 8 THEN Err
    ELSE LET slots == Row0Slots
                        \o (IF Len(base.rows[1].keys) >= 11
                            THEN <<Slot(U_UML[1], 1, 11)>> ELSE <<>>)
                        \o Row1Slots
                        \o (IF Len(base.rows[2].keys) >= 11
                            THEN <<Slot(O_UML[1], 2, 10), Slot(A_UML[1], 2, 11)>> ELSE <<>>)
                        \o Row2Slots
             set(j) == set_key_pair(base.rows[slots[j].row].keys[slots[j].idx],
                                    m[slots[j].ch][1], m[slots[j].ch][2])
             at(r, i) == {j \in 1..Len(slots) : slots[j].row = r /\ slots[j].idx = i}
             newkey(r, i) == IF at(r, i) = {} THEN base.rows[r].keys[i]
                             ELSE set(CHOOSE j \in at(r, i) : TRUE).key
         IN IF \E j \in 1..Len(slots) : slots[j].ch \notin DOMAIN m THEN Err
            ELSE IF \E j \in 1..Len(slots) : ~set(j).ok THEN Err
            ELSE [ok |-> TRUE,
                  doc |-> [base EXCEPT !.rows =
                             [r \in 1..Len(base.rows) |->
                                IF r <= 3
                                THEN [base.rows[r] EXCEPT !.keys =
                                        [i \in 1..Len(base.rows[r].keys) |-> newkey(r, i)]]
                                ELSE base.rows[r]]],
                  touched |-> Len(slots),
                  changed |-> SumSeq([j \in 1..Len(slots) |-> set(j).did])]

apply_mapping_by_position(locale, base, m) ==
    IF locale = "de_DE" THEN apply_mapping_by_position_de_de(base, m) ELSE Err

\* The by-base-letter pass alone, whatever allow_position_fallback is.
compute_after_base_only(before, m, locale, allow_position_fallback) ==
    apply_mapping_by_base_letter(before, m)

\* Lines 473-490.
compute_after(before, m, locale, allow_position_fallback) ==
    OkThen(apply_mapping_by_base_letter(before, m),
           LAMBDA a : IF a.touched = 0 /\ allow_position_fallback
                      THEN apply_mapping_by_position(locale, a.doc, m)
                      ELSE a)

\* ------------------------------------------------------------- signatures
\* A signature that also takes the default of a special key.
full_sig_row_with_special(keys) ==
    Concat([i \in 1..Len(keys) |->
              IF keys[i].obj /\ get0_str_val(keys[i], keys[i].default).ok
              THEN IF Len(get0_str_val(keys[i], keys[i].default).v) = 1
                   THEN get0_str_val(keys[i], keys[i].default).v
                   ELSE <<>>
              ELSE <<>>])

full_sig_row(keys) ==
    LET part(k) == LET d0 == get0_str_val(k, k.default)
                   IN IF ~k.obj \/ k.special \/ ~d0.ok THEN <<>>
                      ELSE IF Len(d0.v) # 1 THEN <<>>
                      ELSE d0.v
    IN Concat([i \in 1..Len(keys) |-> part(keys[i])])

full_signature_rows(v) ==
    IF v.alpha # "arr" THEN Err
    ELSE IF Len(v.rows) < 3 THEN Err
    ELSE IF \E r \in 1..3 : ~v.rows[r].arr THEN Err
    ELSE [ok |-> TRUE, r0 |-> full_sig_row(v.rows[1].keys),
          r1 |-> full_sig_row(v.rows[2].keys), r2 |-> full_sig_row(v.rows[3].keys)]

\* format!("{}|{}|{}", a, b, c), or "unknown"; 124 is the bar.
signature_string(v) ==
    LET s == full_signature_rows(v)
    IN IF s.ok THEN s.r0 \o <<124>> \o s.r1 \o <<124>> \o s.r2
       ELSE <<117, 110, 107, 110, 111, 119, 110>>

locale_full_sig(locale) ==
    IF locale = "de_DE"
    THEN [ok |-> TRUE, r0 |-> ROW0_LETTERS \o U_UML,
          r1 |-> ROW1_LETTERS \o O_UML \o A_UML, r2 |-> ROW2_LETTERS]
    ELSE Err

\* Each needle character is searched after the match of the one before it.
RECURSIVE contains_ordered(_, _)
contains_ordered(hay, needle) ==
    IF needle = <<>> THEN TRUE
    ELSE LET found == {i \in 1..Len(hay) : hay[i] = needle[1]}
         IN IF found = {} THEN FALSE
            ELSE LET first == CHOOSE i \in found : \A j \in found : i <= j
                 IN contains_ordered(SubSeq(hay, first + 1, Len(hay)), Tail(needle))

Contains(hay, c) == \E i \in 1..Len(hay) : hay[i] = c

\* A score that gives the exact match nothing.
score_without_exact(locale, r0, r1, r2, exact) ==
    IF locale = "de_DE"
    THEN (IF contains_ordered(r0, ROW0_LETTERS) THEN 1200 ELSE 0)
         + (IF contains_ordered(r1, ROW1_LETTERS) THEN 1200 ELSE 0)
         + (IF contains_ordered(r2, ROW2_LETTERS) THEN 900 ELSE 0)
         + (IF Contains(r0, U_UML[1]) THEN 8000 ELSE 0)
         + (IF Contains(r1, O_UML[1]) /\ Contains(r1, A_UML[1]) THEN 8000 ELSE 0)
    ELSE 0

score_candidate(locale, r0, r1, r2, exact) ==
    IF locale = "de_DE"
    THEN (IF contains_ordered(r0, ROW0_LETTERS) THEN 1200 ELSE 0)
         + (IF contains_ordered(r1, ROW1_LETTERS) THEN 1200 ELSE 0)
         + (IF contains_ordered(r2, ROW2_LETTERS) THEN 900 ELSE 0)
         + (IF Contains(r0, U_UML[1]) THEN 8000 ELSE 0)
         + (IF Contains(r1, O_UML[1]) /\ Contains(r1, A_UML[1]) THEN 8000 ELSE 0)
         + (IF exact THEN 20000 ELSE 0)
    ELSE 0

validate_layout(v) == v.alpha = "arr" /\ Len(v.rows) >= 3

\* ------------------------------------------------------------ byte readers
\* Offsets are 0-based as in the source: byte off of b is b[off + 1].  A u32
\* of 2^31 or more is read as U32_SATURATED: every comparison the program
\* makes with a header is with a capacity far below it.
U32_SATURATED == 2147483647

U32(b0, b1, b2, b3) ==
    IF b0 >= 128 THEN U32_SATURATED ELSE ((b0 * 256 + b1) * 256 + b2) * 256 + b3

\* read_u32_be(..).unwrap_or(0)
read_u32_be(bytes, off) ==
    IF off + 4 > Len(bytes) THEN 0
    ELSE U32(bytes[off + 1], bytes[off + 2], bytes[off + 3], bytes[off + 4])

\* read_u32_le(..).unwrap_or(0)
read_u32_le(bytes, off) ==
    IF off + 4 > Len(bytes) THEN 0
    ELSE U32(bytes[off + 4], bytes[off + 3], bytes[off + 2], bytes[off + 1])

U16be(n) == <<n \div 256, n % 256>>
U32le(n) == <<n % 256, (n \div 256) % 256, (n \div 65536) % 256, n \div 16777216>>

\* ------------------------------------------------------------------- zstd
\* A frame is the magic, the length of what follows (2 bytes), the length of
\* the content (2 bytes), the content, and slack bytes: what the effort level
\* failed to squeeze out.  prof[i] is the slack at LEVELS[i].
zstd_compress(raw, i, prof) ==
    MAGIC_ZSTD \o U16be(2 + Len(raw) + prof[i]) \o U16be(Len(raw)) \o raw \o Zeros(prof[i])

\* A skippable frame whose content alone is as long as the whole should be.
make_skippable_frame_long(total_bytes) ==
    IF total_bytes < 8 THEN Err
    ELSE [ok |-> TRUE, v |-> SKIP_MAGIC_LE \o U32le(total_bytes) \o Zeros(total_bytes)]

make_skippable_frame(total_bytes) ==
    IF total_bytes < 8 THEN Err
    ELSE [ok |-> TRUE, v |-> SKIP_MAGIC_LE \o U32le(total_bytes - 8) \o Zeros(total_bytes - 8)]

\* zstd::stream::decode_all: the frames one after the other, skippable frames
\* skipped, anything else an error.
RECURSIVE DecodeFrames(_, _, _)
DecodeFrames(b, p, acc) ==
    IF p > Len(b) THEN [ok |-> TRUE, v |-> acc]
    ELSE IF p + 7 > Len(b) THEN Err
    ELSE IF SubSeq(b, p, p + 3) = MAGIC_ZSTD
         THEN LET body == b[p + 4] * 256 + b[p + 5]
                  n == b[p + 6] * 256 + b[p + 7]
              IN IF body < 2 \/ p + 5 + body > Len(b) \/ n > body - 2 THEN Err
                 ELSE DecodeFrames(b, p + 6 + body, acc \o SubSeq(b, p + 8, p + 7 + n))
    ELSE IF SubSeq(b, p, p + 3) = SKIP_MAGIC_LE
         THEN LET n == read_u32_le(b, p + 3)
              IN IF p + 7 + n > Len(b) THEN Err ELSE DecodeFrames(b, p + 8 + n, acc)
    ELSE Err

decode_all(b) == DecodeFrames(b, 1, <<>>)

\* The first level that fits with no gap or with a gap a skippable frame fills.
RECURSIVE CompressFrom(_, _, _, _)
CompressFrom(raw, cap, prof, i) ==
    IF i > Len(LEVELS) THEN Err
    ELSE LET comp == zstd_compress(raw, i, prof)
             pad == cap - Len(comp)
         IN IF Len(comp) > cap THEN CompressFrom(raw, cap, prof, i + 1)
            ELSE IF pad = 0 THEN [ok |-> TRUE, out |-> comp, lvl |-> LEVELS[i], pad |-> 0]
            ELSE IF pad >= 8
                 THEN [ok |-> TRUE, out |-> comp \o make_skippable_frame(pad).v,
                       lvl |-> LEVELS[i], pad |-> pad]
            ELSE CompressFrom(raw, cap, prof, i + 1)

\* A compressor that fills any gap with zero bytes.
compress_zero_filled(raw, cap, prof) ==
    IF Len(zstd_compress(raw, Len(LEVELS), prof)) > cap THEN Err
    ELSE [ok |-> TRUE,
          out |-> zstd_compress(raw, Len(LEVELS), prof)
                    \o Zeros(cap - Len(zstd_compress(raw, Len(LEVELS), prof))),
          lvl |-> LEVELS[Len(LEVELS)],
          pad |-> cap - Len(zstd_compress(raw, Len(LEVELS), prof))]

\* The frame of the level the loop stops at, without the skippable frame.
compress_unpadded(raw, cap, prof) ==
    IF ~CompressFrom(raw, cap, prof, 1).ok THEN Err
    ELSE [CompressFrom(raw, cap, prof, 1) EXCEPT
            !.out = SubSeq(@, 1, cap - CompressFrom(raw, cap, prof, 1).pad)]

\* A loop that starts at the second effort level.
compress_from_second(raw, cap, prof) == CompressFrom(raw, cap, prof, 2)

\* Lines 1069-1092.
compress_to_exact_cap(raw, cap, prof) == CompressFrom(raw, cap, prof, 1)

\* The payload window of a region decoded to a document.
DecodeWindow(bytes, hdr_off, cap) ==
    IF hdr_off + 4 + cap > Len(bytes) THEN Err
    ELSE IF ~StartsWith(SubSeq(bytes, hdr_off + 5, hdr_off + 4 + cap), MAGIC_ZSTD) THEN Err
    ELSE OkThen(decode_all(SubSeq(bytes, hdr_off + 5, hdr_off + 4 + cap)),
                LAMBDA decoded : from_slice(decoded.v))

load_candidate_at(bytes, hdr_off, cap) ==
    IF hdr_off + 8 > Len(bytes) THEN Err
    ELSE IF cap # read_u32_be(bytes, hdr_off) /\ cap # read_u32_le(bytes, hdr_off) THEN Err
    ELSE OkThen(DecodeWindow(bytes, hdr_off, cap),
                LAMBDA v : IF v.v.alpha # "arr" THEN Err ELSE v)

\* -------------------------------------------------------------------- scan
\* memmem::Finder::find_iter: the 0-based positions of the magic, ascending.
MagicHits(bytes) ==
    {h \in 0..(Len(bytes) - 4) : SubSeq(bytes, h + 1, h + 4) = MAGIC_ZSTD}

RECURSIVE Ascending(_, _)
Ascending(S, acc) ==
    IF S = {} THEN acc
    ELSE Ascending(S \ {CHOOSE x \in S : \A y \in S : x >= y},
                   <<CHOOSE x \in S : \A y \in S : x >= y>> \o acc)

\* The readings tried, in order: per hit the big-endian one, then the
\* little-endian one.
ReadingsAt(bytes, hits) ==
    Concat([i \in 1..Len(hits) |->
              <<[hdr_off |-> hits[i] - 4, cap |-> read_u32_be(bytes, hits[i] - 4)],
                [hdr_off |-> hits[i] - 4, cap |-> read_u32_le(bytes, hits[i] - 4)]>>])

ReadingsBigEndianOnly(bytes) ==
    [i \in 1..Len(Ascending({h \in MagicHits(bytes) : h >= 4}, <<>>)) |->
        [hdr_off |-> Ascending({h \in MagicHits(bytes) : h >= 4}, <<>>)[i] - 4,
         cap |-> read_u32_be(bytes, Ascending({h \in MagicHits(bytes) : h >= 4}, <<>>)[i] - 4)]]

Readings(bytes) == ReadingsAt(bytes, Ascending({h \in MagicHits(bytes) : h >= 4}, <<>>))

\* out.push((hdr_off, cap, v)), if v decoded to a document with an
\* "alphabetic" array.
ScanPush(out, r, v) ==
    IF v.ok
    THEN IF v.v.alpha = "arr"
         THEN Append(out, [hdr_off |-> r.hdr_off, cap |-> r.cap, v |-> v.v])
         ELSE out
    ELSE out

RECURSIVE ScanFrom(_, _, _, _, _)
ScanFrom(bytes, rs, i, seen, out) ==
    IF i > Len(rs) THEN out
    ELSE IF rs[i].cap < 80 \/ rs[i].cap > 20000 THEN ScanFrom(bytes, rs, i + 1, seen, out)
    ELSE IF rs[i] \in seen THEN ScanFrom(bytes, rs, i + 1, seen, out)
    ELSE ScanFrom(bytes, rs, i + 1, seen \cup {rs[i]},
                  ScanPush(out, rs[i], DecodeWindow(bytes, rs[i].hdr_off, rs[i].cap)))

scan_keyboard_json(bytes) == ScanFrom(bytes, Readings(bytes), 1, {}, <<>>)

\* ------------------------------------------------------------------ hashes
\* SHA-256 taken as collision-free: the digest stands for the bytes hashed.
sha256_file(bytes) == <<"sha256", bytes>>

sha256_with_schema(over_min) == <<"sha256", over_min, STATE_SCHEMA>>

\* ------------------------------------------------- documents of the inputs
Upper(c) == c - 32

LetterKeys(ls) == [i \in 1..Len(ls) |-> NKey(ls[i], Upper(ls[i]))]

\* The stock de_DE layout: shift and backspace frame the third row.
DeRows ==
    <<LetterKeys(ROW0_LETTERS \o U_UML), LetterKeys(ROW1_LETTERS \o O_UML \o A_UML),
      <<SKey>> \o LetterKeys(ROW2_LETTERS) \o <<SKey>>>>

DeDoc == DocOf(7, [r \in 1..3 |-> RowOf(DeRows[r])])

\* The same grid with the key at (row, idx) replaced.
Grid(r1, i1, k1, r2, i2, k2) ==
    DocOf(7, [r \in 1..3 |->
                RowOf([i \in 1..Len(DeRows[r]) |->
                         IF r = r1 /\ i = i1 THEN k1
                         ELSE IF r = r2 /\ i = i2 THEN k2
                         ELSE DeRows[r][i]])])

\* Overrides: the stock grid; y and z swapped; e as a two-byte glyph and the
\* u-umlaut key as plain u; q without a shifted field; a special key in a
\* letter slot; two rows only.
OvDe == DeDoc
OvSwap == Grid(1, 6, NKey(121, 89), 3, 2, NKey(122, 90))
OvWide == Grid(1, 3, NKey(233, 201), 1, 3, NKey(233, 201))
OvNarrow == Grid(1, 11, NKey(117, 85), 1, 11, NKey(117, 85))
OvNoShift == Grid(1, 1, [NKey(113, 113) EXCEPT !.shifted = Absent], 1, 1, SKey)
OvSpecial == Grid(2, 1, SKey, 2, 1, SKey)
OvTwoRows == DocOf(7, <<RowOf(DeRows[1]), RowOf(DeRows[2])>>)

\* Other documents found in the artifact: rows of a few keys.
Keys(ls) == RowOf(LetterKeys(ls))
DecoySmall == DocOf(1, <<Keys(<<113, 119>>), Keys(<<97>>), Keys(<<121>>)>>)
DecoyUml == DocOf(2, <<Keys(<<120>> \o U_UML), Keys(O_UML \o A_UML), Keys(<<109>>)>>)
DecoyTwoRows == DocOf(3, <<Keys(<<113>>), Keys(<<97>>)>>)
DecoyNoAlpha == [rest |-> 4, alpha |-> "absent", rows |-> <<>>]

\* ---------------------------------------------------------------- artifacts
\* A region as the vendor's build laid it out: the capacity field in either
\* byte order, one frame, and a skippable frame when pad >= 8.
Payload(doc, slack, pad) ==
    MAGIC_ZSTD \o U16be(2 + Len(to_vec(doc)) + slack) \o U16be(Len(to_vec(doc)))
      \o to_vec(doc) \o Zeros(slack)
      \o (IF pad >= 8 THEN make_skippable_frame(pad).v ELSE <<>>)

Region(doc, slack, pad, be) ==
    LET pl == Payload(doc, slack, pad)
        hdr == <<0, 0, Len(pl) \div 256, Len(pl) % 256>>
    IN (IF be THEN hdr ELSE <<hdr[4], hdr[3], hdr[2], hdr[1]>>) \o pl

JUNK == <<127, 69, 76, 70, 2, 1>>

ArtA == JUNK \o Region(DecoyUml, 0, 0, TRUE) \o Region(DeDoc, 0, 10, TRUE) \o JUNK
ArtB == JUNK \o Region(DeDoc, 0, 0, FALSE) \o Region(DecoySmall, 0, 11, TRUE)
ArtC == JUNK \o Region(DecoySmall, 0, 11, TRUE) \o Region(DecoyUml, 0, 0, FALSE)
ArtD == JUNK \o Region(DecoyNoAlpha, 0, 70, TRUE) \o Region(DecoyTwoRows, 0, 20, TRUE)
ArtE == JUNK \o JUNK

\* The stock layout with one key more in the second row: its default is
\* three characters and it has no shifted field.
DocMulti ==
    DocOf(7, <<RowOf(DeRows[1]),
               RowOf(DeRows[2] \o <<[NKey(46, 46) EXCEPT
                                       !.default = Arr(<<Str(<<46, 100, 101>>)>>),
                                       !.shifted = Absent]>>),
               RowOf(DeRows[3])>>)

\* A layout of the same shape with no Latin letter on it.
CYR ==
    <<<<1081, 1094, 1091, 1082, 1077, 1085, 1075, 1096, 1097, 1079, 1093>>,
      <<1092, 1099, 1074, 1072, 1087, 1088, 1086, 1083, 1076, 1078, 1101>>,
      <<1103, 1095, 1089, 1084, 1080, 1090, 1100>>>>
DocCyr ==
    DocOf(7, <<Keys(CYR[1]), Keys(CYR[2]), RowOf(<<SKey>> \o LetterKeys(CYR[3]) \o <<SKey>>)>>)

\* A capacity field in front of bytes that are no zstd frame.
DEAD == <<0, 0, 0, 12>> \o Zeros(12)

\* Offsets of the capacity fields in ArtF.
OffDead == Len(JUNK)
OffNoAlpha == OffDead + Len(DEAD)
OffTwoRows == OffNoAlpha + Len(Region(DecoyNoAlpha, 0, 70, TRUE))
OffMulti == OffTwoRows + Len(Region(DecoyTwoRows, 0, 20, TRUE))

ArtF ==
    JUNK \o DEAD \o Region(DecoyNoAlpha, 0, 70, TRUE) \o Region(DecoyTwoRows, 0, 20, TRUE)
      \o Region(DocMulti, 0, 10, TRUE)
ArtG == JUNK \o Region(DocCyr, 0, 10, TRUE) \o JUNK

\* Slack per effort level: a compressor that does as well as the vendor's
\* at every level, and one that gets there only at level 18.
Profiles == {<<0, 0, 0, 0, 0, 0, 0, 0>>, <<5, 5, 5, 5, 5, 5, 0, 0>>}

OverrideNames == {"de", "swap", "wide", "narrow", "tworows"}

OverrideFile(name) ==
    CASE name = "de" -> OvDe
      [] name = "swap" -> OvSwap
      [] name = "wide" -> OvWide
      [] name = "narrow" -> OvNarrow
      [] name = "noshift" -> OvNoShift
      [] name = "special" -> OvSpecial
      [] OTHER -> OvTwoRows

Locales == {"de_DE", "fr_FR"}

\* The command lines of the runs: every override with every combination of
\* --check and --force for the supported locale, and one unsupported locale.
CommandLines ==
    {[locale |-> "de_DE", json |-> j, check |-> c, force |-> f] :
        j \in OverrideNames, c \in BOOLEAN, f \in BOOLEAN}
    \cup {[locale |-> "fr_FR", json |-> "de", check |-> FALSE, force |-> FALSE]}

\* ------------------------------------------------------------ state record
NoState ==
    [some |-> FALSE, schema |-> "", orig_sha |-> <<>>, patched_sha |-> <<>>,
     override_sha |-> <<>>, locale |-> "", hits |-> <<>>]

\* A record that keeps the hash of the artifact before the patch.
StateFileOfOrig(orig, patched, over, locale, hdr_off, cap, sig) ==
    [some |-> TRUE, schema |-> STATE_SCHEMA, orig_sha |-> orig, patched_sha |-> orig,
     override_sha |-> over, locale |-> locale,
     hits |-> <<[hdr_off |-> hdr_off, cap |-> cap, sig |-> sig]>>]

StateFile(orig, patched, over, locale, hdr_off, cap, sig) ==
    [some |-> TRUE, schema |-> STATE_SCHEMA, orig_sha |-> orig, patched_sha |-> patched,
     override_sha |-> over, locale |-> locale,
     hits |-> <<[hdr_off |-> hdr_off, cap |-> cap, sig |-> sig]>>]

\* What an earlier release left behind for this very artifact and the stock
\* override: everything matches but the schema tag.
StaleState(bytes) ==
    [StateFile(sha256_file(bytes), sha256_file(bytes),
               sha256_with_schema(to_vec(OvDe)), "de_DE", Len(JUNK), 80, <<>>)
       EXCEPT !.schema = "kbdpatch-state-v1"]

\* The capacity field at hdr_off read big-endian.
CapAt(bytes, hdr_off) == read_u32_be(bytes, hdr_off)

Hit(hdr_off, cap) == [hdr_off |-> hdr_off, cap |-> cap, sig |-> <<>>]

\* Records of the current schema for ArtF as it is, written for the stock
\* override, that this build does not write itself: hits that no longer
\* load (wrong capacity, no magic, no "alphabetic") in front of one that
\* does; five hits of which the first four do not load; one hit on the
\* two-row layout; and a record for another locale.
RecordFor(bytes, locale, hits) ==
    [StateFile(sha256_file(bytes), sha256_file(bytes), sha256_with_schema(to_vec(OvDe)),
               locale, 0, 0, <<>>) EXCEPT !.hits = hits]

BadHits ==
    <<Hit(OffMulti, CapAt(ArtF, OffMulti) + 1), Hit(OffDead, CapAt(ArtF, OffDead)),
      Hit(OffNoAlpha, CapAt(ArtF, OffNoAlpha))>>

CraftedRecords ==
    {RecordFor(ArtF, "de_DE", BadHits \o <<Hit(OffMulti, CapAt(ArtF, OffMulti))>>),
     RecordFor(ArtF, "de_DE",
               BadHits \o <<Hit(OffMulti, 1), Hit(OffMulti, CapAt(ArtF, OffMulti))>>),
     RecordFor(ArtF, "de_DE", <<Hit(OffTwoRows, CapAt(ArtF, OffTwoRows))>>),
     RecordFor(ArtF, "fr_FR", <<Hit(OffMulti, CapAt(ArtF, OffMulti))>>)}

NoPlan ==
    [hdr_off |-> 0, cap |-> 0, old_payload |-> <<>>, new_payload |-> <<>>,
     after |-> DecoyNoAlpha, sig |-> <<>>]

\* ------------------------------------------------------ the steps of run()
\* A test of check mode that leaves the override out.
CheckIgnoresOverride(st, sha, over_sha, locale) ==
    st.some /\ st.schema = STATE_SCHEMA /\ st.patched_sha = sha /\ st.locale = locale

\* The test of check mode (lines 153-156).
CheckMatches(st, sha, over_sha, locale) ==
    st.some /\ st.schema = STATE_SCHEMA /\ st.patched_sha = sha
      /\ st.override_sha = over_sha /\ st.locale = locale

\* A test that takes the hash of the original artifact for the hash to match.
EarlyExitOnOrigSha(st, sha, over_sha, locale) ==
    st.some /\ st.schema = STATE_SCHEMA /\ st.orig_sha = sha
      /\ st.override_sha = over_sha /\ st.locale = locale

\* The test of the early exit (lines 173-176).
EarlyExitMatches(st, sha, over_sha, locale) ==
    st.some /\ st.schema = STATE_SCHEMA /\ st.patched_sha = sha
      /\ st.override_sha = over_sha /\ st.locale = locale

\* A test that wants two recorded hits.
StateHitNeedsTwoHits(st, sha, locale) ==
    st.some /\ st.schema = STATE_SCHEMA /\ st.locale = locale
      /\ st.patched_sha = sha /\ Len(st.hits) >= 2

\* A test that does not look at the schema tag.
StateHitAnySchema(st, sha, locale) ==
    st.some /\ st.locale = locale /\ st.patched_sha = sha /\ st.hits # <<>>

\* The test that sends the run to the recorded hits (lines 196-199).
StateHitApplies(st, sha, locale) ==
    st.some /\ st.schema = STATE_SCHEMA /\ st.locale = locale
      /\ st.patched_sha = sha /\ st.hits # <<>>

\* A loop that gives up after the first recorded hit.
HitLoopFirstOnly(bytes, hits, i) ==
    IF i > Len(hits) \/ ~load_candidate_at(bytes, hits[i].hdr_off, hits[i].cap).ok THEN Err
    ELSE [ok |-> TRUE, hdr_off |-> hits[i].hdr_off, cap |-> hits[i].cap,
          v |-> load_candidate_at(bytes, hits[i].hdr_off, hits[i].cap).v]

\* The loop over the recorded hits (line 208): the first of at most four
\* that loads is the one the run works on.
RECURSIVE HitLoop(_, _, _)
HitLoop(bytes, hits, i) ==
    IF i > Len(hits) \/ i > 4 THEN Err
    ELSE IF load_candidate_at(bytes, hits[i].hdr_off, hits[i].cap).ok
         THEN [ok |-> TRUE, hdr_off |-> hits[i].hdr_off, cap |-> hits[i].cap,
               v |-> load_candidate_at(bytes, hits[i].hdr_off, hits[i].cap).v]
    ELSE HitLoop(bytes, hits, i + 1)

\* How many recorded hits that loop hands to load_candidate_at.
RECURSIVE HitsTried(_, _, _)
HitsTried(bytes, hits, i) ==
    IF i > Len(hits) \/ i > 4 THEN i - 1
    ELSE IF load_candidate_at(bytes, hits[i].hdr_off, hits[i].cap).ok THEN i
    ELSE HitsTried(bytes, hits, i + 1)

\* An insertion that puts a candidate before those of the same score.
RECURSIVE InsertBeforeEqual(_, _)
InsertBeforeEqual(c, sorted) ==
    IF sorted = <<>> THEN <<c>>
    ELSE IF Head(sorted).score > c.score THEN <<Head(sorted)>> \o InsertBeforeEqual(c, Tail(sorted))
    ELSE <<c>> \o sorted

\* cands.sort_by(|a, b| b.score.cmp(&a.score)): stable, descending.
RECURSIVE InsertByScore(_, _)
InsertByScore(c, sorted) ==
    IF sorted = <<>> THEN <<c>>
    ELSE IF Head(sorted).score >= c.score THEN <<Head(sorted)>> \o InsertByScore(c, Tail(sorted))
    ELSE <<c>> \o sorted

RECURSIVE SortByScore(_)
SortByScore(cs) ==
    IF cs = <<>> THEN <<>>
    ELSE InsertByScore(cs[Len(cs)], SortByScore(SubSeq(cs, 1, Len(cs) - 1)))

\* Lines 336-353: a Cand of a document that has a signature.
CandOf(c, sg, locale, expected) ==
    [hdr_off |-> c.hdr_off, cap |-> c.cap, sig0 |-> sg.r0, sig1 |-> sg.r1, sig2 |-> sg.r2,
     score |-> score_candidate(locale, sg.r0, sg.r1, sg.r2,
                               sg.r0 = expected.r0 /\ sg.r1 = expected.r1
                                 /\ sg.r2 = expected.r2),
     exact |-> sg.r0 = expected.r0 /\ sg.r1 = expected.r1 /\ sg.r2 = expected.r2,
     v |-> c.v]

Signed(raw) == SelectSeq(raw, LAMBDA c : full_signature_rows(c.v).ok)

Cands(raw, locale, expected) ==
    [i \in 1..Len(Signed(raw)) |->
       CandOf(Signed(raw)[i], full_signature_rows(Signed(raw)[i].v), locale, expected)]

\* seek(off) and write_all(data): the file grows if the write runs past its end.
WriteAt(bytes, off, data) ==
    [i \in 1..(IF off + Len(data) > Len(bytes) THEN off + Len(data) ELSE Len(bytes)) |->
       IF i > off /\ i <= off + Len(data) THEN data[i - off] ELSE bytes[i]]

\* A write that starts at the capacity field.
apply_over_header(bytes, p) == WriteAt(bytes, p.hdr_off, p.new_payload)

apply_in_place(bytes, p) == WriteAt(bytes, p.hdr_off + 4, p.new_payload)

\* A rollback that writes the new payload again.
rollback_with_new(bytes, p) == WriteAt(bytes, p.hdr_off + 4, p.new_payload)

rollback_in_place(bytes, p) == WriteAt(bytes, p.hdr_off + 4, p.old_payload)

\* The comparison that ends verify_one (line 1158).
VerifyGot(got, p) == got.ok /\ got.v = p.after

verify_one(bytes, p) ==
    IF (IF read_u32_be(bytes, p.hdr_off) = p.cap
        THEN read_u32_be(bytes, p.hdr_off) ELSE read_u32_le(bytes, p.hdr_off)) # p.cap
    THEN FALSE
    ELSE VerifyGot(DecodeWindow(bytes, p.hdr_off, p.cap), p)

\* A backup step that copies over a file that is already there.
ensure_backup_overwrite(dir, bytes, sha) ==
    {b \in dir : b.sha # sha} \cup {[sha |-> sha, bytes |-> bytes]}

\* A backup step that copies nothing.
ensure_backup_skipped(dir, bytes, sha) == dir

ensure_backup(dir, bytes, sha) ==
    IF \E b \in dir : b.sha = sha THEN dir ELSE dir \cup {[sha |-> sha, bytes |-> bytes]}

\* An exit status that does not tell a patch from a no-op.
ExitStatusMerged(o) ==
    CASE o = "Unchanged" -> 0
      [] o = "Patched" -> 0
      [] OTHER -> 1

\* main: the exit status of an outcome.
ExitStatus(o) ==
    CASE o = "Unchanged" -> 0
      [] o = "Patched" -> 2
      [] OTHER -> 1

\* ------------------------------------------------------------------- state
VARIABLES
    file,       \* the target artifact's bytes
    stateRec,   \* the state file, parsed (NoState: none, or unreadable)
    backups,    \* the backup directory: records [sha, bytes]
    prof,       \* the compressor's slack per level
    runs,       \* runs started
    faults,     \* I/O failures so far
    pc,         \* where the current run stands
    args,       \* its command line
    sha_cur,    \* the hash of the artifact taken at line 139
    cands,      \* the scored candidates of the scan, sorted
    cand,       \* the region worked on, with its document (before) and signature
    ca,         \* what compute_after returned: after, touched, changed
    plan,       \* the Plan
    via,        \* "hit" or "scan": the path the run took
    mm,         \* the read-only mapping of the artifact is alive
    outcome,    \* "Unchanged", "Patched" or "Error" once run() has returned
    err,        \* the failure behind an "Error"
    rc,         \* the exit status, -1 while the process runs
    file0,      \* history: the artifact when the run started
    nwrites,    \* history: writes to the artifact in this run
    nstate,     \* history: writes of the state file in this run
    scanned,    \* history: scan_keyboard_json was called in this run
    verified,   \* history: "no", "ok" or "failed"
    nbackup,    \* history: backup copies made in this run
    tried,      \* history: recorded hits the run tried to load
    last,       \* history: the run before this one
    fn,         \* the function called on its own, "none" in a run of the tool
    inp,        \* its arguments
    out         \* what it returned

vars == <<file, stateRec, backups, prof, runs, faults, pc, args, sha_cur, cands, cand, ca,
          plan, via, mm, outcome, err, rc, file0, nwrites, nstate, scanned, verified,
          nbackup, tried, last, fn, inp, out>>

\* The variables of one run's progress, and its history.
locals == <<cands, cand, ca, plan, via>>
hist == <<file0, nwrites, nstate, scanned, verified, nbackup, tried, last>>

\* A function called on its own.
pure == <<fn, inp, out>>

\* Everything a run of the tool reads or writes.
machine == <<file, stateRec, backups, prof, runs, faults, pc, args, sha_cur, mm, outcome,
             err, rc, locals, hist>>

NoInput == [kind |-> "none"]
NoOutput == [ok |-> FALSE]

NoArgs == [locale |-> "", json |-> "", check |-> FALSE, force |-> FALSE]
NoLast == [some |-> FALSE, args |-> NoArgs, outcome |-> "none", file0 |-> <<>>]
NoCand == [hdr_off |-> 0, cap |-> 0, v |-> DecoyNoAlpha, sig |-> <<>>]
NoCa == [ok |-> FALSE, doc |-> DecoyNoAlpha, touched |-> 0, changed |-> 0]

Mapping == build_letter_mapping(args.locale, OverrideFile(args.json))

OverSha == sha256_with_schema(to_vec(OverrideFile(args.json)))

\* The installations a first run can meet: the artifacts that hold the
\* keyboard with either compressor and no state file, one of them with the
\* record of an earlier release, and the artifacts without the keyboard.
Installations ==
    {[file |-> f, stateRec |-> NoState, prof |-> p] : f \in {ArtA, ArtB}, p \in Profiles}
    \cup {[file |-> ArtA, stateRec |-> StaleState(ArtA), prof |-> p] : p \in Profiles}
    \cup {[file |-> ArtA,
            stateRec |-> [RecordFor(ArtA, "de_DE",
                                    <<Hit(Len(JUNK) + Len(Region(DecoyUml, 0, 0, TRUE)),
                                          CapAt(ArtA, Len(JUNK)
                                                        + Len(Region(DecoyUml, 0, 0, TRUE))))>>)
                            EXCEPT !.schema = ""],
            prof |-> <<0, 0, 0, 0, 0, 0, 0, 0>>]}
    \cup {[file |-> f, stateRec |-> NoState, prof |-> <<0, 0, 0, 0, 0, 0, 0, 0>>] :
             f \in {ArtC, ArtD, ArtE, ArtG}}
    \cup {[file |-> ArtF, stateRec |-> r, prof |-> <<0, 0, 0, 0, 0, 0, 0, 0>>] :
             r \in CraftedRecords}
    \cup {[file |-> ArtG,
            stateRec |-> RecordFor(ArtG, "de_DE", <<Hit(Len(JUNK), CapAt(ArtG, Len(JUNK)))>>),
            prof |-> <<0, 0, 0, 0, 0, 0, 0, 0>>]}

\* Nothing has run yet.
Quiet ==
    /\ backups = {}
    /\ runs = 0
    /\ faults = 0
    /\ pc = "idle"
    /\ args = NoArgs
    /\ sha_cur = <<>>
    /\ cands = <<>>
    /\ cand = NoCand
    /\ ca = NoCa
    /\ plan = NoPlan
    /\ via = "none"
    /\ mm = FALSE
    /\ outcome = "none"
    /\ err = ""
    /\ rc = -1
    /\ file0 = file
    /\ nwrites = 0
    /\ nstate = 0
    /\ scanned = FALSE
    /\ verified = "no"
    /\ nbackup = 0
    /\ tried = 0
    /\ last = NoLast

Init ==
    /\ \E i \in Installations :
         /\ file = i.file
         /\ stateRec = i.stateRec
         /\ prof = i.prof
    /\ Quiet
    /\ fn = "none"
    /\ inp = NoInput
    /\ out = NoOutput

\* run() returns: the mapping is dropped with its frame.
Return(o, why) ==
    /\ pc' = "ret"
    /\ outcome' = o
    /\ err' = why
    /\ mm' = FALSE

\* The mapping kept alive instead of released.
forget(m) == m

\* drop(mm) (lines 281, 435), and the end of the scope of a mapping: the
\* mapping is gone.
drop(m) == FALSE

\* An I/O call fails.
Fault == faults < MaxFaults /\ faults' = faults + 1

\* write_state(st2) and Ok(Outcome), or the error of write_state.
WriteState(st2, o) ==
    \/ /\ stateRec' = st2
       /\ nstate' = nstate + 1
       /\ Return(o, "")
       /\ UNCHANGED faults
    \/ /\ Fault
       /\ Return("Error", "write_state")
       /\ UNCHANGED <<stateRec, nstate>>

\* The process is started.
Start ==
    /\ pc \in {"idle", "done"}
    /\ runs < MaxRuns
    /\ args' \in CommandLines
    /\ runs' = runs + 1
    /\ pc' = "begin"
    /\ last' = IF pc = "done"
               THEN [some |-> TRUE, args |-> args, outcome |-> outcome, file0 |-> file0]
               ELSE NoLast
    /\ file0' = file
    /\ sha_cur' = <<>>
    /\ cands' = <<>>
    /\ cand' = NoCand
    /\ ca' = NoCa
    /\ plan' = NoPlan
    /\ via' = "none"
    /\ outcome' = "none"
    /\ err' = ""
    /\ rc' = -1
    /\ nwrites' = 0
    /\ nstate' = 0
    /\ scanned' = FALSE
    /\ verified' = "no"
    /\ nbackup' = 0
    /\ tried' = 0
    /\ UNCHANGED <<file, stateRec, backups, prof, faults, mm>>
    /\ UNCHANGED pure

\* Lines 121-184: the override, the mapping, the hashes, the state file, check
\* mode and the early exit.
Begin ==
    /\ pc = "begin"
    /\ IF ~validate_override(OverrideFile(args.json))
       THEN Return("Error", "override") /\ UNCHANGED sha_cur
       ELSE IF ~Mapping.ok THEN Return("Error", "build mapping") /\ UNCHANGED sha_cur
       ELSE /\ sha_cur' = sha256_file(file)
            /\ IF args.check
               THEN IF CheckMatches(stateRec, sha_cur', OverSha, args.locale)
                    THEN Return("Unchanged", "")
                    ELSE Return("Patched", "")
               ELSE IF ~args.force /\ EarlyExitMatches(stateRec, sha_cur', OverSha, args.locale)
                    THEN Return("Unchanged", "")
               ELSE pc' = "backup" /\ UNCHANGED <<outcome, err, mm>>
    /\ UNCHANGED <<file, stateRec, backups, prof, runs, faults, args, rc>>
    /\ UNCHANGED <<locals, hist>>
    /\ UNCHANGED pure

\* ensure_backup (line 186), then the artifact is opened and mapped.  fs::copy
\* fails before it creates the file, or part way: the file is then left
\* with the bytes copied so far.
Backup ==
    /\ pc = "backup"
    /\ \/ /\ backups' = ensure_backup(backups, file, sha_cur)
          /\ nbackup' = nbackup + Cardinality(backups') - Cardinality(backups)
          /\ pc' = "hits"
          /\ mm' = TRUE
          /\ UNCHANGED <<outcome, err, faults>>
       \/ /\ ~\E b \in backups : b.sha = sha_cur
          /\ Fault
          /\ Return("Error", "backup")
          /\ UNCHANGED <<backups, nbackup>>
       \/ /\ ~\E b \in backups : b.sha = sha_cur
          /\ Fault
          /\ backups' = backups \cup {[sha |-> sha_cur,
                                      bytes |-> SubSeq(file, 1, Len(file) \div 2)]}
          /\ Return("Error", "backup")
          /\ UNCHANGED nbackup
    /\ UNCHANGED <<file, stateRec, prof, runs, args, sha_cur, rc>>
    /\ UNCHANGED <<locals, file0, nwrites, nstate, scanned, verified, tried, last>>
    /\ UNCHANGED pure

\* Lines 195-223: the recorded hits, if the artifact is the one the record
\* was written for.
StateHit ==
    /\ pc = "hits"
    /\ \E h \in {IF StateHitApplies(stateRec, sha_cur, args.locale)
                 THEN HitLoop(file, stateRec.hits, 1) ELSE Err} :
         IF h.ok
         THEN /\ cand' = [hdr_off |-> h.hdr_off, cap |-> h.cap, v |-> h.v,
                          sig |-> signature_string(h.v)]
              /\ via' = "hit"
              /\ pc' = "map"
         ELSE /\ pc' = "scan"
              /\ UNCHANGED <<cand, via>>
    /\ tried' = IF StateHitApplies(stateRec, sha_cur, args.locale)
                THEN HitsTried(file, stateRec.hits, 1) ELSE 0
    /\ UNCHANGED <<file, stateRec, backups, prof, runs, faults, args, sha_cur, cands, ca,
                   plan, mm, outcome, err, rc>>
    /\ UNCHANGED <<file0, nwrites, nstate, scanned, verified, nbackup, last>>
    /\ UNCHANGED pure

\* The scored candidates of lines 334-360, best first.
ScoredCands(raw, locale) == SortByScore(Cands(raw, locale, locale_full_sig(locale)))

\* Lines 327-378: the full scan, the scores and the choice.
Scan ==
    /\ pc = "scan"
    /\ scanned' = TRUE
    /\ via' = "scan"
    /\ IF ~locale_full_sig(args.locale).ok
       THEN Return("Error", "locale") /\ UNCHANGED <<cands, cand>>
       ELSE \E raw \in {scan_keyboard_json(file)} :
              IF raw = <<>>
              THEN Return("Error", "no candidates") /\ UNCHANGED <<cands, cand>>
              ELSE /\ cands' = ScoredCands(raw, args.locale)
                   /\ IF cands' = <<>>
                      THEN Return("Error", "no layout") /\ UNCHANGED cand
                      ELSE /\ cand' = [hdr_off |-> cands'[1].hdr_off, cap |-> cands'[1].cap,
                                       v |-> cands'[1].v,
                                       sig |-> cands'[1].sig0 \o <<124>> \o cands'[1].sig1
                                                 \o <<124>> \o cands'[1].sig2]
                           /\ pc' = "map"
                           /\ UNCHANGED <<mm, outcome, err>>
    /\ UNCHANGED <<file, stateRec, backups, prof, runs, faults, args, sha_cur, ca, plan, rc,
                   file0, nwrites, nstate, verified, nbackup, tried, last>>
    /\ UNCHANGED pure

\* Lines 224-259 and 380-413: the mapping applied, and the run that has
\* nothing to change.
Map ==
    /\ pc = "map"
    /\ \E r \in {compute_after(cand.v, Mapping.m, args.locale, via = "hit")} :
         IF ~r.ok
         THEN Return("Error", "mapping") /\ UNCHANGED <<ca, stateRec, nstate, faults>>
         ELSE IF via = "scan" /\ r.touched = 0
              THEN Return("Error", "touched 0") /\ UNCHANGED <<ca, stateRec, nstate, faults>>
         ELSE IF r.changed = 0
              THEN /\ WriteState(StateFile(IF via = "hit" THEN stateRec.orig_sha ELSE sha_cur,
                                            sha_cur, OverSha, args.locale,
                                            cand.hdr_off, cand.cap, cand.sig),
                                 "Unchanged")
                   /\ ca' = r
         ELSE /\ ca' = r
              /\ pc' = "plan"
              /\ UNCHANGED <<stateRec, nstate, faults, mm, outcome, err>>
    /\ UNCHANGED <<file, backups, prof, runs, args, sha_cur, cands, cand, plan, via, rc,
                   file0, nwrites, scanned, verified, nbackup, tried, last>>
    /\ UNCHANGED pure

\* Lines 261-290 and 415-445: validate_layout, compress_to_exact_cap, the
\* bounds test, the old payload, drop(mm) and the Plan.
MakePlan ==
    /\ pc = "plan"
    /\ IF ~validate_layout(ca.doc) THEN Return("Error", "layout") /\ UNCHANGED plan
       ELSE \E c \in {compress_to_exact_cap(to_vec(ca.doc), cand.cap, prof)} :
              IF ~c.ok THEN Return("Error", "capacity") /\ UNCHANGED plan
              ELSE IF cand.hdr_off + 4 + cand.cap > Len(file)
                   THEN Return("Error", "bounds") /\ UNCHANGED plan
              ELSE /\ plan' = [hdr_off |-> cand.hdr_off, cap |-> cand.cap,
                               old_payload |-> SubSeq(file, cand.hdr_off + 5,
                                                      cand.hdr_off + 4 + cand.cap),
                               new_payload |-> c.out, after |-> ca.doc, sig |-> cand.sig]
                   /\ mm' = drop(mm)
                   /\ pc' = "apply"
                   /\ UNCHANGED <<outcome, err>>
    /\ UNCHANGED <<file, stateRec, backups, prof, runs, faults, args, sha_cur, cands, cand,
                   ca, via, rc>>
    /\ UNCHANGED hist
    /\ UNCHANGED pure

\* A write that reports success and stores something else: one byte of the
\* content differs.
Corrupted(p) == [p EXCEPT !.new_payload[9] = (@ + 1) % 256]

\* A write that fails half way.
Torn(p) == [p EXCEPT !.new_payload = SubSeq(@, 1, Len(@) \div 2)]

\* apply_in_place (lines 292, 447).
Apply ==
    /\ pc = "apply"
    /\ \/ /\ file' = apply_in_place(file, plan)
          /\ nwrites' = nwrites + 1
          /\ pc' = "verify"
          /\ UNCHANGED <<faults, outcome, err, mm>>
       \/ /\ Fault
          /\ file' = apply_in_place(file, Corrupted(plan))
          /\ nwrites' = nwrites + 1
          /\ pc' = "verify"
          /\ UNCHANGED <<outcome, err, mm>>
       \/ /\ Fault
          /\ file' = apply_in_place(file, Torn(plan))
          /\ nwrites' = nwrites + 1
          /\ Return("Error", "apply_in_place")
       \/ /\ Fault
          /\ Return("Error", "apply_in_place")
          /\ UNCHANGED <<file, nwrites>>
    /\ UNCHANGED <<stateRec, backups, prof, runs, args, sha_cur, rc, file0, nstate, scanned,
                   verified, nbackup, tried, last>>
    /\ UNCHANGED locals
    /\ UNCHANGED pure

\* verify_one opens the file and maps it again (lines 1133-1135), or fails
\* to: its error is the one of a failed verification.
VerifyMap ==
    /\ pc = "verify"
    /\ \/ /\ mm' = TRUE
          /\ pc' = "verifying"
          /\ UNCHANGED <<verified, faults>>
       \/ /\ Fault
          /\ verified' = "failed"
          /\ pc' = "rollback"
          /\ UNCHANGED mm
    /\ UNCHANGED <<file, stateRec, backups, prof, runs, args, sha_cur, outcome, err, rc,
                   file0, nwrites, nstate, scanned, nbackup, tried, last>>
    /\ UNCHANGED locals
    /\ UNCHANGED pure

\* The rest of verify_one (lines 1137-1162); its mapping ends with it.
Verify ==
    /\ pc = "verifying"
    /\ \/ /\ verify_one(file, plan)
          /\ verified' = "ok"
          /\ pc' = "finish"
       \/ /\ ~verify_one(file, plan)
          /\ verified' = "failed"
          /\ pc' = "rollback"
    /\ mm' = drop(mm)
    /\ UNCHANGED <<file, stateRec, backups, prof, runs, faults, args, sha_cur, outcome, err,
                   rc, file0, nwrites, nstate, scanned, nbackup, tried, last>>
    /\ UNCHANGED locals
    /\ UNCHANGED pure

\* rollback_in_place(..).ok() and the error (lines 294-295, 449-450).
Rollback ==
    /\ pc = "rollback"
    /\ \/ /\ file' = rollback_in_place(file, plan)
          /\ nwrites' = nwrites + 1
          /\ UNCHANGED faults
       \/ /\ Fault
          /\ UNCHANGED <<file, nwrites>>
    /\ Return("Error", "verify")
    /\ UNCHANGED <<stateRec, backups, prof, runs, args, sha_cur, rc, file0, nstate, scanned,
                   verified, nbackup, tried, last>>
    /\ UNCHANGED locals
    /\ UNCHANGED pure

\* Lines 298-316 and 453-470: the new hash and the state record.
Finish ==
    /\ pc = "finish"
    /\ \/ WriteState(StateFile(IF via = "hit" THEN stateRec.orig_sha ELSE sha_cur,
                               sha256_file(file), OverSha, args.locale,
                               plan.hdr_off, plan.cap, plan.sig),
                     "Patched")
       \/ /\ Fault
          /\ Return("Error", "sha256_file")
          /\ UNCHANGED <<stateRec, nstate>>
    /\ UNCHANGED <<file, backups, prof, runs, args, sha_cur, rc, file0, nwrites, scanned,
                   verified, nbackup, tried, last>>
    /\ UNCHANGED locals
    /\ UNCHANGED pure

\* main (lines 101-112).
Main ==
    /\ pc = "ret"
    /\ rc' = ExitStatus(outcome)
    /\ pc' = "done"
    /\ UNCHANGED <<file, stateRec, backups, prof, runs, faults, args, sha_cur, mm, outcome,
                   err>>
    /\ UNCHANGED <<locals, hist>>
    /\ UNCHANGED pure

Next ==
    \/ Start
    \/ Begin
    \/ Backup
    \/ StateHit
    \/ Scan
    \/ Map
    \/ MakePlan
    \/ Apply
    \/ VerifyMap
    \/ Verify
    \/ Rollback
    \/ Finish
    \/ Main

Spec == Init /\ [][Next]_vars

\* ------------------------------------------- the functions on their own
\* Largest gap between the smallest frame and the capacity asked for.
MaxCapGap == 9

\* Longest list of candidates handed to the scoring.
MaxCands == 3

\* Slack per effort level of the compressors tried.
PureProfiles ==
    {<<0, 0, 0, 0, 0, 0, 0, 0>>, <<5, 5, 5, 5, 5, 5, 0, 0>>, <<9, 9, 3, 3, 3, 3, 1, 1>>}

\* A layout with every expected letter and one key more: no exact match.
DecoyExtra ==
    DocOf(5, <<Keys(ROW0_LETTERS \o U_UML \o <<223>>), Keys(ROW1_LETTERS \o O_UML \o A_UML),
               Keys(ROW2_LETTERS)>>)

\* The letters without the umlauts.
DecoyPlain == DocOf(6, <<Keys(ROW0_LETTERS), Keys(ROW1_LETTERS), Keys(ROW2_LETTERS)>>)

\* With them: a row of keys that are special, no object, or have a default
\* that is missing, no array, empty, no string, an empty string, two
\* characters, or two strings, among keys of one character; a row that is no
\* array among the first three; and one as the fourth.
CandDocs ==
    LET odd == RowOf(<<NKey(113, 81), SKey, [NKey(119, 87) EXCEPT !.special = TRUE],
                       NonObjKey,
                       [NKey(101, 69) EXCEPT !.default = Arr(<<Str(<<101, 101>>)>>)],
                       [NKey(114, 82) EXCEPT !.default = Absent],
                       [NKey(116, 84) EXCEPT !.default = NotArr],
                       [NKey(122, 90) EXCEPT !.default = Arr(<<>>)],
                       [NKey(117, 85) EXCEPT !.default = Arr(<<NonStr>>)],
                       [NKey(105, 73) EXCEPT !.default = Arr(<<Str(<<>>)>>)],
                       [NKey(111, 79) EXCEPT !.default = Arr(<<Str(<<111>>), Str(<<112>>)>>)],
                       NKey(252, 220), NKey(80, 112),
                       [NKey(97, 65) EXCEPT !.shifted = Absent]>>)
    IN {DeDoc, DecoyExtra, DecoyPlain, DecoyUml, DecoyTwoRows,
        DocOf(10, <<odd, Keys(<<97>>), odd>>),
        DocOf(11, <<Keys(<<113>>), NonArrRow, Keys(<<121>>), Keys(<<97>>)>>),
        DocOf(12, <<Keys(<<113>>), odd, Keys(<<121>>), NonArrRow>>)}

\* Base documents for the mapping: keys with a shifted field that is missing,
\* empty, not a string, or two glyphs; a special key, a key that is no
\* object, an upper-case letter, a multi-character default, a fourth row.
OddRow ==
    RowOf(<<NKey(111, 79),
            [NKey(113, 81) EXCEPT !.shifted = Arr(<<NonStr>>)],
            [NKey(119, 87) EXCEPT !.shifted = Absent],
            [NKey(101, 69) EXCEPT !.shifted = Arr(<<NonStr>>)],
            [NKey(114, 82) EXCEPT !.shifted = Arr(<<>>)],
            [NKey(116, 84) EXCEPT !.shifted = Arr(<<Str(<<84>>), Str(<<116>>)>>)],
            [NKey(122, 90) EXCEPT !.default = Arr(<<Str(<<122, 122>>)>>)],
            NKey(85, 117),
            [NKey(105, 73) EXCEPT !.special = TRUE],
            NonObjKey,
            NKey(49, 33)>>)

MapDocs ==
    {DeDoc, DecoySmall, DecoyTwoRows, DecoyNoAlpha,
     DocOf(8, <<OddRow, NonArrRow, Keys(<<121, 122>>), Keys(<<113, 119>>)>>),
     DocOf(9, <<Keys(<<113>>), OddRow, OddRow>>)}

MapOverrides == {OvDe, OvSwap, OvWide, OvNarrow, OvNoShift}

\* Files for the scan: the artifacts; a frame at position 0 and at position 2,
\* where no capacity field fits before it; a capacity field of zeros; an
\* artifact cut inside its last region; a frame whose predecessor's last
\* bytes stand where its capacity field would; and regions of 79, 80, 20000
\* and 20001 bytes with the capacity field in either byte order.
ScanFiles ==
    {ArtA, ArtB, ArtC, ArtD, ArtE, ArtF, ArtG,
     Payload(DecoySmall, 0, 0),
     <<0, 0>> \o Payload(DecoySmall, 0, 0),
     <<0, 0, 0, 0>> \o Payload(DecoySmall, 0, 70),
     SubSeq(ArtA, 1, Len(ArtA) - Len(JUNK) - 5),
     Region(DecoySmall, 0, 11, TRUE) \o Payload(DecoyUml, 0, 0)}
    \cup {JUNK \o Region(DocOf(5, <<>>), 0, pad, be) \o JUNK :
            pad \in {68, 69, 19989, 19990}, be \in BOOLEAN}

\* Keys of an override: default and shifted each missing, no array, an empty
\* array, an array of a non-string, of an empty string, of one character (one
\* or two bytes), of two characters, or of two strings; with and without a
\* "special" field; and a key that is no object.
PairKeys ==
    LET fields == {Absent, NotArr, Arr(<<>>), Arr(<<NonStr>>), Arr(<<Str(<<>>)>>),
                   Arr(<<Str(<<81>>)>>), Arr(<<Str(<<252>>)>>), Arr(<<Str(<<81, 81>>)>>),
                   Arr(<<Str(<<81>>), Str(<<113>>)>>)}
    IN {[NKey(113, 81) EXCEPT !.default = d, !.shifted = s, !.special = sp] :
           d \in fields, s \in fields, sp \in BOOLEAN}
       \cup {NonObjKey}

\* Raw candidates as the scan returns them, one per document.
RawOf(docs) == [i \in 1..Len(docs) |-> [hdr_off |-> 100 * i, cap |-> 80 + i, v |-> docs[i]]]

PureInputs ==
    {[kind |-> "compress", doc |-> d, cap |-> 8 + Len(to_vec(d)) + g, prof |-> p] :
        d \in {DecoySmall, DecoyUml}, g \in (-1)..MaxCapGap, p \in PureProfiles}
    \cup {[kind |-> "choose", raw |-> RawOf(ds)] :
            ds \in UNION {[1..n -> CandDocs] : n \in 1..MaxCands}}
    \cup {[kind |-> "map", base |-> b, over |-> o] : b \in MapDocs, o \in MapOverrides}
    \cup {[kind |-> "scan", bytes |-> b] : b \in ScanFiles}
    \cup {[kind |-> "pair", key |-> k] : k \in PairKeys}

PureInit ==
    /\ file = ArtE
    /\ stateRec = NoState
    /\ prof = <<0, 0, 0, 0, 0, 0, 0, 0>>
    /\ Quiet
    /\ fn = "none"
    /\ inp \in PureInputs
    /\ out = NoOutput

CallCompress ==
    /\ fn = "none"
    /\ inp.kind = "compress"
    /\ fn' = "compress_to_exact_cap"
    /\ out' = compress_to_exact_cap(to_vec(inp.doc), inp.cap, inp.prof)
    /\ UNCHANGED <<inp, machine>>

CallChoose ==
    /\ fn = "none"
    /\ inp.kind = "choose"
    /\ fn' = "choose"
    /\ out' = [ok |-> TRUE, cands |-> ScoredCands(inp.raw, "de_DE")]
    /\ UNCHANGED <<inp, machine>>

CallApplyMapping ==
    /\ fn = "none"
    /\ inp.kind = "map"
    /\ fn' = "apply_mapping_by_base_letter"
    /\ out' = apply_mapping_by_base_letter(inp.base, build_letter_mapping("de_DE", inp.over).m)
    /\ UNCHANGED <<inp, machine>>

CallScan ==
    /\ fn = "none"
    /\ inp.kind = "scan"
    /\ fn' = "scan_keyboard_json"
    /\ out' = [ok |-> TRUE, found |-> scan_keyboard_json(inp.bytes)]
    /\ UNCHANGED <<inp, machine>>

CallKeyPair ==
    /\ fn = "none"
    /\ inp.kind = "pair"
    /\ fn' = "key_pair_from_val"
    /\ out' = key_pair_from_val(inp.key)
    /\ UNCHANGED <<inp, machine>>

PureNext ==
    \/ CallCompress
    \/ CallChoose
    \/ CallApplyMapping
    \/ CallScan
    \/ CallKeyPair

PureSpec == PureInit /\ [][PureNext]_vars

\* ------------------------------------------------------------------ claims
\* The run has returned.
Returned == pc \in {"ret", "done"}

\* Every byte outside the payload window of the plan is as it was when the
\* run started, and the artifact is as long as it was.
FrameHolds ==
    /\ Len(file) = Len(file0)
    /\ \A i \in 1..Len(file) :
         (i <= plan.hdr_off + 4 \/ i > plan.hdr_off + 4 + plan.cap) => file[i] = file0[i]

\* C1: a run that ends with an error (exit status 1) leaves the artifact
\* byte for byte as it was when the run started, whatever step failed.
C1_ErrorLeavesArtifact == (pc = "done" /\ rc = 1) => file = file0

\* The state C1 rules out that needs no failure of the artifact's own I/O: the
\* patch is written and verified, write_state fails, the run ends with an
\* error and the artifact stays patched.
C1_Witness ==
    /\ pc = "done"
    /\ rc = 1
    /\ err = "write_state"
    /\ faults = 1
    /\ verified = "ok"
    /\ file # file0

\* C2: when a run without --check and --force follows a run with the same
\* command line that ended Patched or Unchanged, it ends Unchanged and writes
\* nothing to the artifact.
C2_SecondRunNoOp ==
    (pc = "done" /\ last.some /\ last.args = args /\ ~args.check /\ ~args.force
       /\ last.outcome \in {"Patched", "Unchanged"})
    => (outcome = "Unchanged" /\ nwrites = 0 /\ file = file0)

C2_Witness ==
    /\ pc = "done"
    /\ last.some /\ last.args = args /\ ~args.check /\ ~args.force
    /\ last.outcome = "Patched"
    /\ outcome = "Unchanged"

C4_OnlyTheWindow ==
    /\ pc \in {"apply", "verify", "verifying", "rollback", "finish"}
         => (Len(plan.new_payload) = plan.cap /\ Len(plan.old_payload) = plan.cap)
    /\ nwrites > 0 => FrameHolds
    /\ nwrites = 0 => file = file0

C4_Witness ==
    /\ pc = "done"
    /\ ~args.check
    /\ outcome = "Patched"
    /\ file # file0
    /\ FrameHolds

\* At every effort level the frame is longer than the capacity or leaves a
\* gap of 1 to 7 bytes.
AllLevelsMiss(raw, cap, p) ==
    \A i \in 1..Len(LEVELS) :
       \/ Len(zstd_compress(raw, i, p)) > cap
       \/ cap - Len(zstd_compress(raw, i, p)) \in 1..7

\* The run has a changed document to compress, and no effort level fits it.
NothingFits ==
    /\ ca.ok
    /\ ca.changed > 0
    /\ validate_layout(ca.doc)
    /\ AllLevelsMiss(to_vec(ca.doc), cand.cap, prof)

\* C6: if at every effort level the compressed size exceeds the capacity or
\* leaves a gap of 1 to 7 bytes, compress_to_exact_cap returns an error, the
\* run never gets to apply_in_place, writes nothing, and ends with an error.
C6_CapacityFailure ==
    NothingFits
    => /\ ~compress_to_exact_cap(to_vec(ca.doc), cand.cap, prof).ok
       /\ pc \in {"plan", "ret", "done"}
       /\ nwrites = 0
       /\ file = file0
       /\ Returned => (outcome = "Error" /\ err = "capacity")

C6_Witness ==
    /\ NothingFits
    /\ pc = "done"
    /\ rc = 1
    /\ \E i \in 1..Len(LEVELS) :
         cand.cap - Len(zstd_compress(to_vec(ca.doc), i, prof)) \in 1..7

\* C9: a run in check mode never scans, never writes to the artifact, makes
\* no backup and writes no state record; once the override is accepted it
\* answers Unchanged exactly when the test of the early exit holds for the
\* same inputs and the same record, and Patched otherwise.
C9_CheckMode ==
    args.check
    => /\ pc \in {"begin", "ret", "done"}
       /\ ~scanned
       /\ nwrites = 0
       /\ nstate = 0
       /\ nbackup = 0
       /\ file = file0
       /\ (Returned /\ outcome # "Error")
            => /\ outcome \in {"Unchanged", "Patched"}
               /\ outcome = "Unchanged"
                    <=> EarlyExitMatches(stateRec, sha256_file(file), OverSha, args.locale)

C9_Witness ==
    /\ args.check
    /\ pc = "done"
    /\ last.some
    /\ last.outcome = "Patched"
    /\ outcome = "Unchanged"
    /\ rc = 0

\* C10: Unchanged exits with 0, Patched with 2, an error with 1, and a run
\* outside check mode exits with 2 only after new_payload was written and
\* verify_one succeeded.
C10_ExitStatus ==
    pc = "done"
    => /\ rc \in {0, 1, 2}
       /\ rc = 0 <=> outcome = "Unchanged"
       /\ rc = 2 <=> outcome = "Patched"
       /\ rc = 1 <=> outcome = "Error"
       /\ (rc = 2 /\ ~args.check)
            => /\ nwrites = 1
               /\ verified = "ok"
               /\ file = apply_in_place(file0, plan)

C10_Witness ==
    /\ pc = "done"
    /\ rc = 2
    /\ ~args.check
    /\ verified = "ok"

\* The sizes of the frames the effort levels produce, and the smallest.
LevelSizes(raw, p) == {Len(zstd_compress(raw, i, p)) : i \in 1..Len(LEVELS)}

MinSize(raw, p) == CHOOSE n \in LevelSizes(raw, p) : \A k \in LevelSizes(raw, p) : n <= k

\* Some effort level fills the capacity, or leaves room for a skippable frame.
SomeLevelFits(raw, cap, p) == \E n \in LevelSizes(raw, p) : n = cap \/ n + 8 <= cap

\* The buffer is as long as the capacity and decodes to the document.
ExactAndRoundTrips ==
    /\ out.ok
    /\ Len(out.out) = inp.cap
    /\ decode_all(out.out) = [ok |-> TRUE, v |-> to_vec(inp.doc)]
    /\ from_slice(decode_all(out.out).v) = [ok |-> TRUE, v |-> inp.doc]

\* C5, as the code has it: compress_to_exact_cap succeeds exactly when some
\* effort level's size equals the capacity or is at least 8 bytes below it;
\* the buffer it returns then is as long as the capacity and decodes to a
\* document equal to the input.
C5_ExactWhenSomeLevelFits ==
    fn = "compress_to_exact_cap"
    => /\ out.ok <=> SomeLevelFits(to_vec(inp.doc), inp.cap, inp.prof)
       /\ out.ok => ExactAndRoundTrips

C5_Witness ==
    /\ fn = "compress_to_exact_cap"
    /\ ExactAndRoundTrips
    /\ out.pad >= 8
    /\ out.lvl > LEVELS[1]
    /\ inp.cap > MinSize(to_vec(inp.doc), inp.prof)

\* C5, as the specification has it: for every capacity at or above the
\* smallest size over the effort levels, compress_to_exact_cap succeeds with
\* a buffer as long as the capacity that decodes to the document.
C5_EveryCapacityAboveMin ==
    (fn = "compress_to_exact_cap" /\ inp.cap >= MinSize(to_vec(inp.doc), inp.prof))
    => ExactAndRoundTrips

\* The positions of the raw candidates whose three rows are the expected ones.
ExactAt(raw) ==
    {i \in 1..Len(raw) :
       /\ full_signature_rows(raw[i].v).ok
       /\ full_signature_rows(raw[i].v).r0 = locale_full_sig("de_DE").r0
       /\ full_signature_rows(raw[i].v).r1 = locale_full_sig("de_DE").r1
       /\ full_signature_rows(raw[i].v).r2 = locale_full_sig("de_DE").r2}

\* C7: when exactly one candidate has the three rows the locale expects, it
\* is the one chosen, however many others there are and wherever it was
\* found, and its score is above the score of every other one.
C7_ExactIsChosen ==
    (fn = "choose" /\ Cardinality(ExactAt(inp.raw)) = 1)
    => /\ out.cands # <<>>
       /\ out.cands[1].exact
       /\ \A i \in ExactAt(inp.raw) : out.cands[1].hdr_off = inp.raw[i].hdr_off
       /\ \A j \in 2..Len(out.cands) : out.cands[j].score < out.cands[1].score

C7_Witness ==
    /\ fn = "choose"
    /\ ExactAt(inp.raw) = {3}
    /\ inp.raw[1].v = DecoyExtra
    /\ Len(out.cands) = 3
    /\ out.cands[1].hdr_off = inp.raw[3].hdr_off
    /\ out.cands[2].score = 19300

\* What C8 says of one key: ASCII letters folded to lower case.
Fold(c) == IF c \in 65..90 THEN c + 32 ELSE c

\* The key is normal, its default[0] is one character, and the mapping has
\* an entry for its letter.
Mapped(k, m) ==
    /\ k.obj
    /\ ~k.special
    /\ k.default.kind = "arr"
    /\ Len(k.default.elems) >= 1
    /\ k.default.elems[1].str
    /\ Len(k.default.elems[1].s) = 1
    /\ Fold(k.default.elems[1].s[1]) \in DOMAIN m

\* The key after is the key before with default = [d] and shifted = [s].
KeySet(after, k, m) ==
    after = [k EXCEPT !.default = Arr(<<Str(m[Fold(k.default.elems[1].s[1])][1])>>),
                      !.shifted = Arr(<<Str(m[Fold(k.default.elems[1].s[1])][2])>>)]

RowEffect(after, row, m) ==
    /\ after.arr
    /\ Len(after.keys) = Len(row.keys)
    /\ \A i \in 1..Len(row.keys) :
         IF Mapped(row.keys[i], m) THEN KeySet(after.keys[i], row.keys[i], m)
         ELSE after.keys[i] = row.keys[i]

DocEffect(after, base, m) ==
    /\ after.rest = base.rest
    /\ after.alpha = base.alpha
    /\ Len(after.rows) = Len(base.rows)
    /\ \A r \in 1..Len(base.rows) :
         IF r <= 3 /\ base.rows[r].arr THEN RowEffect(after.rows[r], base.rows[r], m)
         ELSE after.rows[r] = base.rows[r]

\* C8: apply_mapping_by_base_letter leaves every key of the first three rows
\* that is normal, has a one-character default[0] and a mapping entry (d, s)
\* for its letter with default = [d] and shifted = [s], and leaves every
\* other key, every row beyond the third and the rest of the document as
\* they were.
C8_KeyEffect ==
    (fn = "apply_mapping_by_base_letter" /\ out.ok)
    => DocEffect(out.doc, inp.base, build_letter_mapping("de_DE", inp.over).m)

\* The state C8 rules out: the key q with a shifted array whose one element
\* is no string, a mapping of q to (q, q), and the key left as it was.
C8_Witness ==
    /\ fn = "apply_mapping_by_base_letter"
    /\ out.ok
    /\ inp.over = OvNoShift
    /\ inp.base.rows[1] = OddRow
    /\ out.doc.rows[1].keys[2] = inp.base.rows[1].keys[2]
    /\ out.doc.rows[1].keys[2].shifted = Arr(<<NonStr>>)
    /\ out.touched > out.changed

\* The run is past the recorded hits and has not returned: the record is
\* still the one it read.
PastHits ==
    pc \in {"scan", "map", "plan", "apply", "verify", "verifying", "rollback", "finish"}

\* The record read has the current schema and the hash of the artifact as it is.
RecordOfThisArtifact ==
    stateRec.some /\ stateRec.schema = STATE_SCHEMA /\ stateRec.patched_sha = sha_cur

HitLoads(i) ==
    load_candidate_at(file0, stateRec.hits[i].hdr_off, stateRec.hits[i].cap).ok

\* C12, the part the code keeps: on the state-hit path every hit that
\* load_candidate_at rejects (capacity mismatch, no magic, no "alphabetic"
\* array) is passed over for the next one, and the full scan is reached only
\* when none of the hits tried loaded.
C12_FailedLoadsFallThrough ==
    (PastHits /\ tried >= 1)
    => /\ \A i \in 1..(tried - 1) : ~HitLoads(i)
       /\ via = "hit" => (HitLoads(tried) /\ ~scanned /\ pc # "scan")
       /\ (pc = "scan" \/ scanned) => ~HitLoads(tried)

C12_Witness ==
    /\ pc = "scan"
    /\ tried = 4
    /\ Len(stateRec.hits) = 5
    /\ HitLoads(5)

\* C12, as the specification has it: a recorded hit whose document has the
\* wrong shape (fewer than 3 rows) does not end the run with an error.
C12_WrongShapeNeverAborts ==
    (Returned /\ via = "hit" /\ tried >= 1 /\ ~validate_layout(cand.v))
    => outcome # "Error"

\* The by-base-letter policy touches no key of the document the run works on.
BaseLetterTouchesNone ==
    \E r \in {apply_mapping_by_base_letter(cand.v, Mapping.m)} : r.ok /\ r.touched = 0

\* C13, the part the code keeps: no run that applied the mapping ends
\* Patched or Unchanged having touched zero keys, and on the state-hit path
\* a by-base-letter pass that touches nothing is followed by the
\* by-position pass, whose result is the one the run goes on with.
C13_NoSuccessOnZeroTouched ==
    /\ (Returned /\ via \in {"hit", "scan"} /\ outcome \in {"Patched", "Unchanged"})
         => ca.touched >= 1
    /\ (via = "hit" /\ ca # NoCa /\ BaseLetterTouchesNone)
         => ca = apply_mapping_by_position(
                     args.locale, apply_mapping_by_base_letter(cand.v, Mapping.m).doc,
                     Mapping.m)

C13_Witness ==
    /\ Returned
    /\ via = "hit"
    /\ BaseLetterTouchesNone
    /\ outcome = "Patched"
    /\ ca.touched >= 26

\* C13, as the specification has it: a run ends with "touched 0 keys" only
\* when the by-position policy cannot run or itself touches no key.
C13_AbortOnlyAfterFallback ==
    (Returned /\ err = "touched 0")
    => \/ ~apply_mapping_by_position(
               args.locale, apply_mapping_by_base_letter(cand.v, Mapping.m).doc,
               Mapping.m).ok
       \/ apply_mapping_by_position(
               args.locale, apply_mapping_by_base_letter(cand.v, Mapping.m).doc,
               Mapping.m).touched = 0

\* The run follows a run for the same override and locale that patched the
\* artifact, is forced, and ends without an error.
ForcedRerun ==
    /\ pc = "done"
    /\ last.some
    /\ ~last.args.check
    /\ last.outcome = "Patched"
    /\ args.json = last.args.json
    /\ args.locale = last.args.locale
    /\ args.force
    /\ ~args.check
    /\ outcome # "Error"

\* No letter of the mapping is sent to a letter that the mapping sends
\* somewhere else.
StableMapping(m) ==
    \A c \in DOMAIN m :
        LET d == m[c][1][1]
            k == IF d >= 65 /\ d <= 90 THEN d + 32 ELSE d
        IN k \in DOMAIN m => m[k] = m[c]

\* The overrides whose mapping is of that kind.
StableOverrides ==
    {n \in OverrideNames :
        /\ build_letter_mapping("de_DE", OverrideFile(n)).ok
        /\ StableMapping(build_letter_mapping("de_DE", OverrideFile(n)).m)}

\* The by-base-letter policy applied to the document the run computed
\* changes nothing.
SecondPassChangesNothing ==
    \E r \in {apply_mapping_by_base_letter(ca.doc, Mapping.m)} :
        r.doc = ca.doc /\ r.changed = 0

\* C14, the part the code keeps: for a mapping that sends no letter to a
\* letter it maps elsewhere, apply_mapping_by_base_letter changes nothing in
\* its own output, and a forced run after a run that patched the same
\* artifact for the same override and locale ends Unchanged and leaves the
\* artifact as it was.
C14_IdempotentWhenStable ==
    (args.locale = "de_DE" /\ args.json \in StableOverrides)
    => /\ (pc = "plan" /\ ~BaseLetterTouchesNone) => SecondPassChangesNothing
       /\ ForcedRerun => (outcome = "Unchanged" /\ file = file0)

\* C14: apply_mapping_by_base_letter applied to its own output changes
\* nothing, for every mapping, and so a forced run after a run for the same
\* artifact, override and locale ends Unchanged and leaves the artifact as
\* it was.
C14_IdempotentAndForcedRerunUnchanged ==
    /\ (pc = "plan" /\ ~BaseLetterTouchesNone) => SecondPassChangesNothing
    /\ ForcedRerun => (outcome = "Unchanged" /\ file = file0)

\* The forced run after a patch with the same override patches again.
C14_Witness ==
    /\ ForcedRerun
    /\ outcome = "Patched"
    /\ file # file0
    /\ verified = "ok"

\* The run re-applied a mapping at the recorded hit of a run that patched
\* the artifact, and ended Patched or Unchanged.
Repatched ==
    /\ pc = "done"
    /\ last.some
    /\ ~last.args.check
    /\ last.outcome = "Patched"
    /\ via = "hit"
    /\ outcome \in {"Patched", "Unchanged"}

\* The document of the region before the earlier run, and the one in it now.
RegionBefore == load_candidate_at(last.file0, cand.hdr_off, cand.cap).v
RegionNow == load_candidate_at(file, cand.hdr_off, cand.cap).v

\* C15: a patch with one override followed by a repatch at the recorded hit
\* with another leaves the region decoding to the document that a single
\* patch of the original document with the second override gives.
C15_RepatchEqualsSinglePatch ==
    Repatched
    => \E single \in {compute_after(RegionBefore, Mapping.m, args.locale, TRUE)} :
          single.ok => RegionNow = single.doc

\* A swap of y and z followed by the stock override: the run ends Unchanged
\* and the region still holds the swap.
C15_Witness ==
    /\ Repatched
    /\ last.args.json = "swap"
    /\ args.json = "de"
    /\ outcome = "Unchanged"
    /\ RegionNow # RegionBefore
    /\ compute_after(RegionBefore, Mapping.m, args.locale, TRUE).doc = RegionBefore

\* C16: a run writes the state record only after a verified patch or after
\* a mapping that changed nothing, never when it ends with an error; the
\* record has the current schema, the hash of the artifact as it is when the
\* record is written, the hash of the override and the locale of the run,
\* and one hit, the region the run worked on.
C16_StateRecord ==
    nstate > 0
    => /\ nstate = 1
       /\ Returned
       /\ outcome \in {"Patched", "Unchanged"}
       /\ \/ outcome = "Patched" /\ verified = "ok" /\ nwrites = 1
          \/ outcome = "Unchanged" /\ ca.ok /\ ca.changed = 0 /\ nwrites = 0
       /\ stateRec.some
       /\ stateRec.schema = STATE_SCHEMA
       /\ stateRec.patched_sha = sha256_file(file)
       /\ stateRec.override_sha = OverSha
       /\ stateRec.locale = args.locale
       /\ stateRec.hits = <<[hdr_off |-> cand.hdr_off, cap |-> cand.cap, sig |-> cand.sig]>>
       /\ outcome = "Patched"
            => (plan.hdr_off = cand.hdr_off /\ plan.cap = cand.cap /\ file # file0)

C16_Witness ==
    /\ nstate = 1
    /\ outcome = "Patched"
    /\ verified = "ok"
    /\ via = "hit"
    /\ stateRec.patched_sha = sha256_file(file)
    /\ stateRec.patched_sha # sha_cur

\* The first element of the array is a string of one character.
OneChar(k, f) == get0_str_val(k, f).ok /\ ensure_one_char(get0_str_val(k, f).v)

\* The positions of the keys of the first three rows of a document.
KeysOf(doc) ==
    {<<r, i>> \in (1..3) \X (1..12) :
        r <= Len(doc.rows) /\ doc.rows[r].arr /\ i <= Len(doc.rows[r].keys)}

NormalKey(k) == k.obj /\ ~k.special

\* C17, the part the code keeps: in the document a run writes, every key of
\* the first three rows that the mapping changed has a default and a shifted
\* array whose first element is a string of one character; the other keys
\* are as they were in the document the run read.
C17_ChangedKeysOneChar ==
    nwrites > 0
    => \A p \in KeysOf(plan.after) :
          \/ plan.after.rows[p[1]].keys[p[2]] = cand.v.rows[p[1]].keys[p[2]]
          \/ /\ NormalKey(plan.after.rows[p[1]].keys[p[2]])
             /\ OneChar(plan.after.rows[p[1]].keys[p[2]],
                        plan.after.rows[p[1]].keys[p[2]].default)
             /\ OneChar(plan.after.rows[p[1]].keys[p[2]],
                        plan.after.rows[p[1]].keys[p[2]].shifted)

\* C17, as the specification has it: in the document a run writes, every
\* normal key of the first three rows has a default and a shifted array
\* whose first element is a string of one character.
C17_EveryKeyOneChar ==
    nwrites > 0
    => \A p \in KeysOf(plan.after) :
          NormalKey(plan.after.rows[p[1]].keys[p[2]])
          => /\ OneChar(plan.after.rows[p[1]].keys[p[2]],
                        plan.after.rows[p[1]].keys[p[2]].default)
             /\ OneChar(plan.after.rows[p[1]].keys[p[2]],
                        plan.after.rows[p[1]].keys[p[2]].shifted)

\* A verified patch whose document keeps a key with a default of three
\* characters and no shifted array.
C17_Witness ==
    /\ verified = "ok"
    /\ outcome = "Patched"
    /\ validate_layout(plan.after)
    /\ \E p \in KeysOf(plan.after) :
          /\ NormalKey(plan.after.rows[p[1]].keys[p[2]])
          /\ plan.after.rows[p[1]].keys[p[2]].shifted = Absent
          /\ ~OneChar(plan.after.rows[p[1]].keys[p[2]],
                      plan.after.rows[p[1]].keys[p[2]].default)
    /\ \E p \in KeysOf(plan.after) :
          plan.after.rows[p[1]].keys[p[2]] # cand.v.rows[p[1]].keys[p[2]]

\* C18: no read-only mapping of the artifact is alive when the artifact is
\* opened for writing: the mapping of the scan is dropped before
\* apply_in_place and the mapping of verify_one is released before
\* rollback_in_place, on the state-hit path and on the full-scan path.
C18_NoMappingWhileWriting ==
    /\ pc \in {"apply", "rollback"} => ~mm
    /\ mm => pc \in {"hits", "scan", "map", "plan", "verifying"}

C18_Witness ==
    /\ pc = "rollback"
    /\ ~mm
    /\ nwrites = 1
    /\ verified = "failed"
    /\ ~verify_one(file, plan)
    /\ via = "hit"

\* C19: every write to the artifact comes, in the same run, after
\* ensure_backup has returned Ok for the hash the artifact had at the start
\* of the run (a backup file of that name exists, and holds the artifact's
\* bytes when this run copied it), after a mapping that changed at least one key, after validate_layout
\* accepted the new document and after compress_to_exact_cap gave the
\* payload that is written; without any of these apply_in_place is not
\* called.
C19_WriteIsPrepared ==
    nwrites > 0
    => /\ sha_cur = sha256_file(file0)
       /\ \E b \in backups : b.sha = sha_cur /\ (nbackup = 1 => b.bytes = file0)
       /\ ca.ok
       /\ ca.changed > 0
       /\ plan.after = ca.doc
       /\ validate_layout(plan.after)
       /\ \E c \in {compress_to_exact_cap(to_vec(ca.doc), cand.cap, prof)} :
             c.ok /\ plan.new_payload = c.out /\ Len(c.out) = plan.cap

C19_Witness ==
    /\ pc = "verify"
    /\ nwrites = 1
    /\ nbackup = 1
    /\ file = apply_in_place(file0, plan)
    /\ file # file0
    /\ ca.changed = 2

\* The frame of effort level number i is as long as the capacity asked for,
\* or at least 8 bytes shorter.
LevelFits(i) ==
    \/ Len(zstd_compress(to_vec(inp.doc), i, inp.prof)) = inp.cap
    \/ Len(zstd_compress(to_vec(inp.doc), i, inp.prof)) + 8 <= inp.cap

\* The frame of effort level number i is no longer than the capacity.
LevelWithin(i) == Len(zstd_compress(to_vec(inp.doc), i, inp.prof)) <= inp.cap

\* C20, as the code has it: compress_to_exact_cap tries the effort levels in
\* ascending order and returns at the first whose frame is as long as the
\* capacity or at least 8 bytes shorter; a level whose frame is longer, or
\* shorter by 1 to 7 bytes, is passed over, and the call fails when no level
\* is left.
C20_FirstLevelThatCanBePadded ==
    fn = "compress_to_exact_cap"
    => IF out.ok
       THEN \E i \in 1..Len(LEVELS) :
               /\ out.lvl = LEVELS[i]
               /\ LevelFits(i)
               /\ \A j \in 1..(i - 1) : ~LevelFits(j)
               /\ out.pad = inp.cap - Len(zstd_compress(to_vec(inp.doc), i, inp.prof))
               /\ StartsWith(out.out, zstd_compress(to_vec(inp.doc), i, inp.prof))
       ELSE \A i \in 1..Len(LEVELS) : ~LevelFits(i)

\* The first level is within the capacity by 3 bytes; the call returns the
\* frame of level 18.
C20_Witness ==
    /\ fn = "compress_to_exact_cap"
    /\ out.ok
    /\ out.lvl = 18
    /\ out.pad = 8
    /\ LevelWithin(1)
    /\ ~LevelFits(1)

\* C20, as the specification has it: the call returns at the first effort
\* level, in ascending order, whose frame is no longer than the capacity.
C20_FirstLevelWithinCapacity ==
    (fn = "compress_to_exact_cap" /\ \E i \in 1..Len(LEVELS) : LevelWithin(i))
    => /\ out.ok
       /\ \E i \in 1..Len(LEVELS) :
             /\ out.lvl = LEVELS[i]
             /\ LevelWithin(i)
             /\ \A j \in 1..(i - 1) : ~LevelWithin(j)

\* C21: every Plan a run builds, on the state-hit path and on the full-scan
\* path, has an old payload and a new payload as long as the capacity, and
\* its window, from hdr_off + 4 to hdr_off + 4 + cap, lies within the
\* artifact.
C21_PlanFitsWindow ==
    plan # NoPlan
    => /\ via \in {"hit", "scan"}
       /\ Len(plan.old_payload) = plan.cap
       /\ Len(plan.new_payload) = plan.cap
       /\ plan.hdr_off + 4 + plan.cap <= Len(file0)
       /\ Len(file) = Len(file0)
       /\ plan.old_payload = SubSeq(file0, plan.hdr_off + 5, plan.hdr_off + 4 + plan.cap)

C21_Witness ==
    /\ pc = "apply"
    /\ via = "hit"
    /\ last.some
    /\ plan.cap >= 80
    /\ Len(plan.new_payload) = plan.cap
    /\ compress_to_exact_cap(to_vec(plan.after), plan.cap, prof).pad >= 8
    /\ plan.old_payload # plan.new_payload

\* The candidates in the order the scan found them.
Found == Cands(inp.raw, "de_DE", locale_full_sig("de_DE"))

\* C22: the candidate the full scan works on has the highest score of all
\* candidates, and of those with that score it is the one the scan found
\* first.
C22_BestAndFirstFound ==
    (fn = "choose" /\ Found # <<>>)
    => /\ Len(out.cands) = Len(Found)
       /\ \A j \in 1..Len(Found) : Found[j].score <= out.cands[1].score
       /\ \E j \in 1..Len(Found) :
             /\ Found[j] = out.cands[1]
             /\ \A k \in 1..(j - 1) : Found[k].score < out.cands[1].score

\* Two candidates share the highest score, a lower one was found before
\* them, and the first of the two is the one chosen.
C22_Witness ==
    /\ fn = "choose"
    /\ Len(Found) = 3
    /\ Found[1].score < Found[2].score
    /\ Found[2].score = Found[3].score
    /\ Found[2].hdr_off # Found[3].hdr_off
    /\ out.cands[1] = Found[2]
    /\ out.cands[2] = Found[3]

\* The record on disk carries another schema tag than the current one, or
\* none (read as the empty string).
OtherSchema == stateRec.some /\ stateRec.schema # STATE_SCHEMA

\* But for its schema tag the record matches the artifact and the command
\* line.
MatchesButForSchema ==
    /\ OtherSchema
    /\ stateRec.patched_sha = sha_cur
    /\ stateRec.override_sha = OverSha
    /\ stateRec.locale = args.locale
    /\ stateRec.hits # <<>>

\* C23: a record whose schema tag is not the current one is ignored: while
\* it is the record on disk no run ends Unchanged (neither by the early exit
\* nor as the answer of check mode) and no run tries or uses a recorded hit.
C23_OtherSchemaIgnored ==
    OtherSchema
    => /\ outcome # "Unchanged"
       /\ tried = 0
       /\ via # "hit"
       /\ (Returned /\ args.check /\ Mapping.ok /\ validate_override(OverrideFile(args.json)))
            => outcome = "Patched"

\* A record without a schema field that matches in everything else and
\* holds a hit that loads: the run is at the full scan.
C23_Witness ==
    /\ MatchesButForSchema
    /\ stateRec.schema = ""
    /\ load_candidate_at(file, stateRec.hits[1].hdr_off, stateRec.hits[1].cap).ok
    /\ ~args.check
    /\ ~args.force
    /\ pc = "map"
    /\ scanned
    /\ via = "scan"

\* A step leaves every backup file as it is, and adds at most one: at the
\* backup step of a run, under the hash of the artifact, when no file of
\* that hash was there.
BackupStep ==
    /\ backups \subseteq backups'
    /\ backups' # backups
         => /\ pc = "backup"
            /\ ~\E b \in backups : b.sha = sha_cur
            /\ \E b \in backups' : b.sha = sha_cur /\ backups' = backups \cup {b}

\* C24: over any sequence of runs there is at most one backup file for a
\* hash, it is written at most once and never written again: the only step
\* that writes one is ensure_backup, when no file for the current hash
\* exists.
C24_BackupWrittenOnce ==
    /\ [](\A a \in backups : \A b \in backups : a.sha = b.sha => a = b)
    /\ [][BackupStep]_vars

\* A backup that a failed copy left short is still as it was after a later
\* run of the same artifact has patched it.
C24_Witness ==
    /\ pc = "done"
    /\ outcome = "Patched"
    /\ verified = "ok"
    /\ nwrites = 1
    /\ nbackup = 0
    /\ \E b \in backups : b.sha = sha256_file(file0) /\ b.bytes # file0

\* The capacity fields that precede a frame of the file scanned, by position.
HeadersScanned == {h - 4 : h \in {x \in MagicHits(inp.bytes) : x >= 4}}

\* What the scan returned, as positions and capacities.
PairsFound == [i \in 1..Len(out.found) |-> <<out.found[i].hdr_off, out.found[i].cap>>]

\* The reading cap of the field at hdr_off passes every filter of the scan.
PassesFilters(hdr_off, cap) ==
    /\ cap >= 80
    /\ cap <= 20000
    /\ \E v \in {DecodeWindow(inp.bytes, hdr_off, cap)} : v.ok /\ v.v.alpha = "arr"

\* C25: every region scan_keyboard_json returns lies inside the file, has a
\* capacity from 80 to 20000 that is the big-endian or the little-endian
\* reading of the four bytes at hdr_off, and a payload that starts with the
\* zstd magic; no pair of position and capacity is returned twice; and every
\* reading that passes the filters is returned, so both are when both pass.
C25_ScanRegions ==
    fn = "scan_keyboard_json"
    => /\ \A i \in 1..Len(out.found) :
            /\ out.found[i].hdr_off + 4 + out.found[i].cap <= Len(inp.bytes)
            /\ out.found[i].cap >= 80
            /\ out.found[i].cap <= 20000
            /\ out.found[i].cap \in {read_u32_be(inp.bytes, out.found[i].hdr_off),
                                     read_u32_le(inp.bytes, out.found[i].hdr_off)}
            /\ SubSeq(inp.bytes, out.found[i].hdr_off + 5, out.found[i].hdr_off + 8)
                 = MAGIC_ZSTD
       /\ \A i, j \in 1..Len(out.found) : PairsFound[i] = PairsFound[j] => i = j
       /\ \A h \in HeadersScanned :
            \A cap \in {read_u32_be(inp.bytes, h), read_u32_le(inp.bytes, h)} :
               PassesFilters(h, cap) => \E i \in 1..Len(out.found) : PairsFound[i] = <<h, cap>>

\* A scan that returned a region of the least capacity, read from a
\* little-endian field.
C25_Witness ==
    /\ fn = "scan_keyboard_json"
    /\ \E i \in 1..Len(out.found) :
          /\ out.found[i].cap = 80
          /\ out.found[i].cap = read_u32_le(inp.bytes, out.found[i].hdr_off)
          /\ out.found[i].cap # read_u32_be(inp.bytes, out.found[i].hdr_off)

\* The first element of the field is a string.
HasString0(f) == f.kind = "arr" /\ Len(f.elems) >= 1 /\ f.elems[1].str

\* The first element of the field is a string of one character.
HasChar0(f) == HasString0(f) /\ Len(f.elems[1].s) = 1

\* The field is an array of one element, a string of one character.
IsOneGlyph(f) == f.kind = "arr" /\ Len(f.elems) = 1 /\ HasChar0(f)

\* C26, what the code does: key_pair_from_val accepts a key exactly when it
\* is an object without a "special" field, default[0] is a string of one
\* character, and shifted[0] is a string of one character or no string at
\* all; the pair is default[0] and shifted[0], or default[0] twice when
\* shifted[0] is no string, whether the field is missing or not.
C26_FallbackWhenNoString ==
    fn = "key_pair_from_val"
    => /\ out.ok <=> /\ inp.key.obj
                     /\ ~inp.key.special
                     /\ HasChar0(inp.key.default)
                     /\ HasString0(inp.key.shifted) => HasChar0(inp.key.shifted)
       /\ out.ok => /\ out.d = inp.key.default.elems[1].s
                    /\ out.s = IF HasString0(inp.key.shifted)
                               THEN inp.key.shifted.elems[1].s
                               ELSE out.d

\* C26, as the specification has it: key_pair_from_val accepts only a normal
\* key whose default[0] is a string of one character and whose shifted field
\* is missing or an array of one string of one character, and it takes the
\* default for the shifted glyph only when the shifted field is missing.
C26_FallbackOnlyWhenAbsent ==
    (fn = "key_pair_from_val" /\ out.ok)
    => /\ inp.key.obj
       /\ ~inp.key.special
       /\ HasChar0(inp.key.default)
       /\ inp.key.shifted = Absent \/ IsOneGlyph(inp.key.shifted)
       /\ out.d = inp.key.default.elems[1].s
       /\ out.s = IF inp.key.shifted = Absent THEN out.d ELSE inp.key.shifted.elems[1].s

\* A key with an empty shifted array, accepted with its default as the
\* shifted glyph.
C26_Witness ==
    /\ fn = "key_pair_from_val"
    /\ inp.key.shifted = Arr(<<>>)
    /\ out.ok
    /\ out.s = out.d

\* The key adds its default[0] to the signature of its row.
Contributes(k) == k.obj /\ ~k.special /\ HasChar0(k.default)

\* The characters that the keys of a row add, in the order of the keys.
RowSignature(row) ==
    [i \in 1..Len(SelectSeq(row.keys, Contributes)) |->
       SelectSeq(row.keys, Contributes)[i].default.elems[1].s[1]]

\* The document has three rows or more and its first three are arrays.
HasSignature(doc) ==
    doc.alpha = "arr" /\ Len(doc.rows) >= 3 /\ \A r \in 1..3 : doc.rows[r].arr

\* C27: the signature of a candidate is, for each of the first three rows,
\* the default[0] of every key that is an object without a "special" field
\* and whose default[0] is a string of one character, in the order of the
\* keys, and nothing of any other key; a document with fewer than three
\* rows, or with a row among the first three that is no array, has no
\* signature and is no candidate.
C27_SignatureOfRows ==
    fn = "choose"
    => \A i \in 1..Len(inp.raw) :
          IF HasSignature(inp.raw[i].v)
          THEN \E j \in 1..Len(out.cands) :
                  /\ out.cands[j].hdr_off = inp.raw[i].hdr_off
                  /\ out.cands[j].v = inp.raw[i].v
                  /\ out.cands[j].sig0 = RowSignature(inp.raw[i].v.rows[1])
                  /\ out.cands[j].sig1 = RowSignature(inp.raw[i].v.rows[2])
                  /\ out.cands[j].sig2 = RowSignature(inp.raw[i].v.rows[3])
          ELSE /\ ~full_signature_rows(inp.raw[i].v).ok
               /\ \A j \in 1..Len(out.cands) : out.cands[j].hdr_off # inp.raw[i].hdr_off

\* Three documents scanned: one with keys that add nothing to the signature
\* of its first row, one with a second row that is no array, one with two
\* rows; the first is the only candidate.
C27_Witness ==
    /\ fn = "choose"
    /\ Len(inp.raw) = 3
    /\ Len(out.cands) = 1
    /\ out.cands[1].hdr_off = inp.raw[1].hdr_off
    /\ Len(out.cands[1].sig0) < Len(inp.raw[1].v.rows[1].keys)
    /\ out.cands[1].sig0 = <<113, 111, 252, 80, 97>>
    /\ Len(inp.raw[2].v.rows) >= 3 /\ ~inp.raw[2].v.rows[2].arr
    /\ Len(inp.raw[3].v.rows) = 2

====
